---------------------------- MODULE Spec2Model ----------------------------
(***************************************************************************)
(* Model of the wwebjs-api WPPConnect migration adapters:                  *)
(*   src/wppconnect-migration/wppconnect_api.py        (WPPConnect flavor) *)
(*   src/wppconnect-migration/wwebjs_wppconnect_api.py (WWebJS flavor)     *)
(*                                                                         *)
(* Spec       register_session of both flavors, one backend request per    *)
(*            step, the backend answering anything its transport allows.   *)
(* SpecParse  parse_inbound_message applied to a bounded set of payloads.  *)
(*                                                                         *)
(* Python values are modelled as strings: NONE is Python's None (also an   *)
(* absent key as seen through dict.get), NULL is a JSON null stored under  *)
(* a key, "true"/"false" are the booleans.                                 *)
(***************************************************************************)
EXTENDS Naturals, Sequences, FiniteSets, TLC

VARIABLES
    backend,        \* which adapter class is in use: "wppconnect" | "wwebjs"
    secret_key,     \* self.secret_key ("" when not configured)
    token,          \* self.token
    token0,         \* history: self.token when register_session was called
    auto_register,  \* the auto_register argument
    pc,             \* position of register_session: the request it is about to issue
    status_resp,    \* local status_resp
    first_status,   \* history: the first status_resp of the call
    status,         \* local status (WPPConnect) / state (WWebJS)
    create_res,     \* local create_res
    start_res,      \* local start_res
    start_first,    \* history: what the first start request of the call answered
    qr_resp,        \* local qr_resp
    outcome,        \* the dict register_session returned
    requests,       \* history: the backend requests issued, in order
    calls,          \* history: the client methods register_session called, in order
    request,        \* parse_inbound_message: its argument
    result,         \* parse_inbound_message: what the caller got back
    pstate,         \* parse_inbound_message: "idle" | "ready" | "returned" | "raised"
    earlier,        \* history: the earlier calls of parse_inbound_message, in order
    op,             \* another client method being called: its name and arguments
    ret,            \* what that call returned
    sent,           \* the backend requests that call issued
    ostate,         \* that call: "idle" | "ready" | "returned" | "raised"
    given,          \* history: the arguments the constructor was called with
    api_url,        \* self.api_url
    session,        \* self.session
    timeout,        \* self.timeout
    waiter,         \* which wait loop runs: "none" | "get_token" | "chat_cli"
    wpc,            \* its position: "idle" | "test" | "poll" | "sleep" | "device" |
                    \* "done" | "raised"
    clock,          \* time.time(), in seconds
    start_time,     \* local start_time of wait_for_connection
    iter,           \* the iterations of `for _ in range(60)` begun
    polls,          \* history: the status polls, when each was issued and its answer
    wresult,        \* what the loop returned: "none" | "true" | "false"
    message_queue,  \* chat_cli_webhook.message_queue
    acked,          \* history: the deliveries answered with "received", in order
    qpc,            \* process_incoming_messages: "idle" | "test" | "pop" | "match" |
                    \* "returned" | "raised"
    msg,            \* its local msg
    formatted_target, \* its local formatted_target
    snapshot,       \* history: the queue when the call started
    removed,        \* history: the deliveries popped from the queue, in order
    displayed,      \* history: the deliveries passed to display_message
    printed,        \* history: the deliveries display_message printed a line for
    running,        \* WebhookServer.running
    server,         \* WebhookServer.server: the HTTPServer created last, 0 for None
    server_thread,  \* WebhookServer.server_thread: its thread, 0 for None
    created,        \* the HTTPServer objects created so far
    active_servers, \* the HTTP servers holding the port
    active_threads, \* the threads inside serve_forever
    message_callback, \* WebhookHandler.message_callback (a class attribute)
    current_cb,     \* history: the callback of the last start call that started a server
    last_call       \* history: the last start, stop or delivery and what came of it

regVars == <<backend, secret_key, token, token0, auto_register, pc, status_resp,
             first_status, status, create_res, start_res, start_first, qr_resp,
             outcome, requests, calls>>
parseVars == <<request, result, pstate, earlier>>
opVars == <<op, ret, sent, ostate>>
ctorVars == <<given, api_url, session, timeout>>
waitVars == <<waiter, wpc, clock, start_time, iter, polls, wresult>>
queueVars == <<message_queue, acked, qpc, msg, formatted_target, snapshot, removed,
               displayed, printed>>
serverVars == <<running, server, server_thread, created, active_servers,
                active_threads, message_callback, current_cb, last_call>>
appVars == <<ctorVars, waitVars, queueVars, serverVars>>
vars == <<regVars, parseVars, opVars, appVars>>

---------------------------------------------------------------------------
(* Python values *)

NONE == "<none>"
NULL == "<null>"

\* bool(v) for the values the model uses
Truthy(v) == v \notin {NONE, NULL, "", "false"}

\* str.upper() on the status vocabulary
Upper(s) ==
    CASE s = "qrcode" -> "QRCODE"
      [] s = "connected" -> "CONNECTED"
      [] OTHER -> s

\* "Unauthorized" in str(e)
ContainsUnauthorized(e) ==
    e \in {"Unauthorized", "401 Client Error: Unauthorized for url"}

\* base64.b64encode(content).decode("ascii")
B64(content) ==
    CASE content = "PNG1" -> "UE5HMQ=="
      [] content = "" -> ""
      [] OTHER -> "b64:" \o content

\* A dict is a function from its keys; {} is the empty function
EmptyDict == <<>>

\* {k: v}
Entry(k, v) == k :> v

\* d[k] = v
Put(d, k, v) == (k :> v) @@ d

\* d.get(k, default)
Get(d, k, default) == IF k \in DOMAIN d THEN d[k] ELSE default

\* d.get(k)
GetOrNone(d, k) == Get(d, k, NONE)

\* k in d
Has(d, k) == k \in DOMAIN d

\* A key that is there unless its value is NONE (for building bodies)
Opt(k, v) == IF v = NONE THEN EmptyDict ELSE Entry(k, v)

---------------------------------------------------------------------------
(* The transport: what one HTTP request can come back with *)

Session == "session1"

\* One transport outcome: a 2xx with a JSON body, a 2xx whose body is not JSON
\* (content), a 2xx with no body, or a failure.
Outcome(kind, body, content) == [kind |-> kind, body |-> body, content |-> content]

\* {"ok": False, "error": text}
Failed(text) == [ok |-> "false", error |-> text]

Failures ==
    {Outcome(k, EmptyDict, "") : k \in {"timeout", "neterr", "http401", "http500"}}

NoJson == {Outcome("raw", EmptyDict, "PNG1"), Outcome("empty", EmptyDict, "")}

Json(body) == Outcome("json", body, "")

\* str(e) of the requests exception / the timeout text
ErrorText(kind) ==
    CASE kind \in {"timeout", "connect_timeout"} -> "Timeout after 10.0 seconds"
      [] kind = "neterr" -> "Connection refused"
      [] kind = "http401" -> "401 Client Error: Unauthorized for url"
      [] kind = "http504" -> "504 Server Error: Gateway Timeout for url"
      [] OTHER -> "500 Server Error: Internal Server Error for url"

\* Mutant of send_rest_request_wpp: no except clause of its own for a timeout
send_rest_request_wpp_NoTimeoutClause(o) ==
    CASE o.kind = "json" -> o.body
      [] o.kind = "raw" -> [ok |-> "true", raw |-> o.content]
      [] o.kind = "empty" -> [ok |-> "true", no_content |-> "true"]
      [] OTHER -> Failed("Connection refused")

\* WPPConnectAPI.send_rest_request (wppconnect_api.py): classification of the outcome
send_rest_request_wpp(o) ==
    CASE o.kind = "json" -> o.body
      [] o.kind = "raw" -> [ok |-> "true", raw |-> o.content]
      [] o.kind = "empty" -> [ok |-> "true", no_content |-> "true"]
      [] OTHER -> Failed(ErrorText(o.kind))

\* Mutant of send_rest_request_wwebjs: the success flag is left where it is
send_rest_request_wwebjs_NoFolding(o) == send_rest_request_wpp(o)

\* WPPConnectAPI.send_rest_request (wwebjs_wppconnect_api.py): as above, and a
\* JSON body's success flag is copied into ok
send_rest_request_wwebjs(o) ==
    CASE o.kind = "json" ->
            IF Has(o.body, "success")
            THEN Put(o.body, "ok", o.body.success)
            ELSE o.body
      [] o.kind = "raw" -> [ok |-> "true", raw |-> o.content]
      [] o.kind = "empty" -> [ok |-> "true", no_content |-> "true"]
      [] OTHER -> Failed(ErrorText(o.kind))

send_rest_request(b, o) ==
    IF b = "wppconnect" THEN send_rest_request_wpp(o) ELSE send_rest_request_wwebjs(o)

\* The credential a request carries: "Authorization: Bearer <token>" for
\* WPPConnect, "x-api-key: <secret_key>" for WWebJS
AuthHeader(b, tok, key) == IF b = "wppconnect" THEN tok ELSE key

Req(ep, b, tok, key) == [ep |-> ep, auth |-> AuthHeader(b, tok, key)]

---------------------------------------------------------------------------
(* What the backend may answer, per endpoint *)

\* status-session bodies: a status (absent, null, blank, known, unknown, lower
\* case), with or without an error text, and the QR some versions attach
StatusBodiesWpp ==
    {Opt("status", st) @@ Opt("error", e) :
        st \in {NONE, NULL, "", "CONNECTED", "QRCODE", "DISCONNECTED", "CLOSED",
                "INITIALIZING", "qrcode"},
        e \in {NONE, "Unauthorized"}}
    \cup
    {[status |-> st, qrcode |-> "QR0"] : st \in {"QRCODE", "INITIALIZING"}}

\* session/status bodies: {success, state, message}, and an error text on some
StatusBodiesWwebjs ==
    {Opt("message", m) @@ Opt("state", st) @@
     Entry("success", IF m = "session_connected" THEN "true" ELSE "false") :
        m \in {NONE, "session_not_found", "session closed", "browser tab closed",
               "session_not_connected", "session_connected", "something else"},
        st \in {NONE, NULL, "CONNECTED", "QRCODE", "CLOSED"}}
    \cup
    {Opt("message", m) @@ Opt("state", st) @@ [success |-> "false", error |-> "Unauthorized"] :
        m \in {NONE, "session_connected"}, st \in {NONE, "CONNECTED", "QRCODE"}}

StatusOutcomes(b) ==
    Failures \cup NoJson \cup
    {Json(d) : d \in IF b = "wppconnect" THEN StatusBodiesWpp ELSE StatusBodiesWwebjs}

CreateOutcomes(b) ==
    Failures \cup NoJson \cup
    IF b = "wppconnect"
    THEN {Json(Opt("token", t) @@ Opt("status", st)) :
            t \in {NONE, "", "T"}, st \in {NONE, "success"}}
    ELSE {Json(Opt("token", t) @@ Opt("success", ok)) :
            t \in {NONE, "T"}, ok \in {NONE, "true", "false"}}

StartOutcomes(b) ==
    {Outcome(k, EmptyDict, "") : k \in {"timeout", "http500"}} \cup
    IF b = "wppconnect"
    THEN {Json(Opt("status", st) @@ Opt("qrcode", q)) :
            st \in {NONE, "CONNECTED", "QRCODE"}, q \in {NONE, "QR1"}}
    ELSE {Json(Entry("success", ok) @@ Opt("qrcode", q)) :
            ok \in {"true", "false"}, q \in {NONE, "QR1"}}

\* GET qrcode-session through requests.get (WPPConnect): response.ok with the
\* image bytes, a non-2xx with its text, or an exception of requests
QrOutcomesWpp ==
    {Outcome("raw", EmptyDict, c) : c \in {"PNG1", ""}} \cup
    {Outcome("http500", EmptyDict, "Internal Server Error")} \cup
    {Outcome(k, EmptyDict, "") : k \in {"timeout", "neterr"}}

\* GET session/qr/{id}/image through send_rest_request (WWebJS)
QrOutcomesWwebjs ==
    Failures \cup NoJson \cup
    {Json([success |-> "false", message |-> "qr code not ready"])}

DeviceOutcomes ==
    {Outcome(k, EmptyDict, "") : k \in {"timeout", "http500"}} \cup
    {Json([success |-> "true", session |-> Session])}

---------------------------------------------------------------------------
(* Client methods used by register_session *)

\* Mutant of status_wwebjs: a state in the answer is the status, whatever the
\* message says
status_wwebjs_StateFirst(res) ==
    IF Truthy(GetOrNone(res, "state"))
    THEN Put(res, "status", res.state)
    ELSE Put(res, "status",
             IF Get(res, "message", "") = "session_connected" THEN "CONNECTED" ELSE "")

\* WPPConnectAPI.status (wwebjs_wppconnect_api.py): the WWebJS answer
\* {success, state, message} reduced to the status vocabulary
status_wwebjs(res) ==
    LET message == Get(res, "message", "")
        state == GetOrNone(res, "state")
    IN  CASE message = "session_not_found" -> Put(res, "status", "")
          [] message \in {"browser tab closed", "session closed"} ->
                Put(res, "status", "")
          [] message = "session_not_connected" ->
                Put(res, "status", IF Truthy(state) THEN state ELSE "DISCONNECTED")
          [] message = "session_connected" -> Put(res, "status", "CONNECTED")
          [] OTHER ->
                IF Has(res, "state") /\ Truthy(state)
                THEN Put(res, "status", state)
                ELSE IF Has(res, "error") /\ ~Truthy(GetOrNone(res, "ok"))
                THEN Put(res, "status", "")
                ELSE Put(res, "status", "")

\* status() of either flavor, given the transport outcome of its request
status_method(b, o) ==
    IF b = "wppconnect"
    THEN send_rest_request_wpp(o)
    ELSE status_wwebjs(send_rest_request_wwebjs(o))

\* The raw status string register_session reads from status_resp
RawStatus(b, resp) ==
    IF b = "wppconnect"
    THEN Get(resp, "status", "")
    ELSE IF Truthy(GetOrNone(resp, "state"))
         THEN resp.state
         ELSE Get(resp, "status", "")

\* The condition under which register_session calls create_session
NeedsCreate(b, resp, st) ==
    IF b = "wppconnect"
    THEN ContainsUnauthorized(Get(resp, "error", "")) \/ st = ""
    ELSE Has(resp, "error") \/ ContainsUnauthorized(Get(resp, "error", ""))

\* create_session when no secret key is configured: no request is issued
NoSecretResult == Failed("secret_key required")

\* create_session of either flavor, given the transport outcome of its request
create_session(b, o, tok) ==
    IF b = "wppconnect"
    THEN send_rest_request_wpp(o)
    ELSE LET res == send_rest_request_wwebjs(o)
         IN  IF Truthy(GetOrNone(res, "ok")) \/ Truthy(GetOrNone(res, "success"))
             THEN Put(Put(res, "token", tok), "session", Session)
             ELSE res

\* Mutant of CreateFailed: only an explicit ok = false counts as a failure
CreateFailed_OnlyExplicitFalse(b, res) ==
    ~Truthy(GetOrNone(res, "token")) /\ GetOrNone(res, "ok") = "false"

\* Mutant of CreateFailed: register_session goes on whatever create_session
\* returned
CreateFailed_Never(b, res) == FALSE

\* Whether register_session gives up after create_session
CreateFailed(b, res) ==
    IF b = "wppconnect"
    THEN ~Truthy(GetOrNone(res, "token"))
    ELSE ~Truthy(GetOrNone(res, "token")) /\ ~Truthy(GetOrNone(res, "ok"))

\* The status values that lead to the start-and-QR path
AutoRegisterStates(b) ==
    IF b = "wppconnect"
    THEN {"QRCODE", "DISCONNECTED", "CLOSED", ""}
    ELSE {"QRCODE", "DISCONNECTED", "UNPAIRED", ""}

---------------------------------------------------------------------------
(* The dicts register_session returns *)

\* Before register_session has returned
NoOutcome == EmptyDict

ErrorOutcome(res) ==
    [status |-> "ERROR",
     message |-> "Could not create instance or get token.",
     details |-> res]

ConnectedOutcome(device_info, tok) ==
    [status |-> "CONNECTED",
     message |-> "Session is already active and connected.",
     device |-> device_info,
     session |-> Session,
     token |-> tok]

AwaitingOutcome(qrcode_b64, tok) ==
    [status |-> "AWAITING_QR_SCAN",
     message |-> "Session created or started. Awaiting QR Code scan.",
     qrcode |-> qrcode_b64,
     session |-> Session,
     token |-> tok]

\* "Some other status": WPPConnect also copies status_resp's qrcode
OtherOutcome(b, st, resp) ==
    IF b = "wppconnect"
    THEN [status |-> st, message |-> "Session status: " \o st, details |-> resp,
          qrcode |-> GetOrNone(resp, "qrcode")]
    ELSE [status |-> st, message |-> "Session status: " \o st, details |-> resp]

\* return start_res (WPPConnect, start did not report CONNECTED)
VerbatimOutcome(res) == res

---------------------------------------------------------------------------
(* register_session, one backend request per step *)

\* What follows a status poll whose status is st: the CONNECTED path, the
\* start-and-QR path, or the return of "some other status"
AfterStatus(b, st, resp, auto) ==
    IF st = "CONNECTED"
    THEN [pc |-> IF b = "wppconnect" THEN "start" ELSE "device", outcome |-> NoOutcome]
    ELSE IF st \in AutoRegisterStates(b) /\ auto
    THEN [pc |-> "start", outcome |-> NoOutcome]
    ELSE [pc |-> "done", outcome |-> OtherOutcome(b, st, resp)]

\* status_resp = self.status(); status = status_resp.get("status", "").upper()
\* then the choice between create_session and the dispatch on status
StatusPoll ==
    /\ pc = "status"
    /\ \E o \in StatusOutcomes(backend) :
        LET resp == status_method(backend, o)
            raw == RawStatus(backend, resp)
            st == Upper(raw)
            nxt == AfterStatus(backend, st, resp, auto_register)
        IN  /\ requests' = Append(requests, Req("status", backend, token, secret_key))
            /\ calls' = Append(calls, "status")
            /\ status_resp' = resp
            /\ first_status' = resp
            /\ IF raw = NULL
               THEN \* None.upper(): AttributeError leaves register_session
                    /\ pc' = "raised"
                    /\ UNCHANGED <<status, outcome>>
               ELSE /\ status' = st
                    /\ IF NeedsCreate(backend, resp, st)
                       THEN pc' = "create" /\ UNCHANGED outcome
                       ELSE pc' = nxt.pc /\ outcome' = nxt.outcome
    /\ UNCHANGED <<backend, secret_key, token, token0, auto_register, start_first, create_res,
                   start_res, qr_resp, parseVars, opVars, appVars>>

\* Mutant of StoredToken: the new token is dropped
StoredToken_KeepsOld(b, res, tok) == tok

\* self.token after a create_session that did not fail: WPPConnect stores
\* create_res["token"], WWebJS stores it when it is non-empty
StoredToken(b, res, tok) ==
    IF b = "wppconnect" \/ Truthy(GetOrNone(res, "token"))
    THEN GetOrNone(res, "token")
    ELSE tok

\* After create_session returned res: give up, or store the token and poll again
AfterCreate(res) ==
    /\ create_res' = res
    /\ calls' = Append(calls, "create_session")
    /\ IF CreateFailed(backend, res)
       THEN /\ pc' = "done"
            /\ outcome' = ErrorOutcome(res)
            /\ UNCHANGED token
       ELSE /\ pc' = "status2"
            /\ token' = StoredToken(backend, res, token)
            /\ UNCHANGED outcome

\* create_res = self.create_session() without a secret key: no request
CreateSessionNoSecret ==
    /\ pc = "create"
    /\ secret_key = ""
    /\ AfterCreate(NoSecretResult)
    /\ UNCHANGED <<backend, secret_key, token0, auto_register, start_first, status_resp,
                   first_status, status, start_res, qr_resp, requests, parseVars, opVars, appVars>>

\* create_res = self.create_session() with a secret key
CreateSession ==
    /\ pc = "create"
    /\ secret_key # ""
    /\ \E o \in CreateOutcomes(backend) :
        AfterCreate(create_session(backend, o, token))
    /\ requests' = Append(requests, Req("create", backend, token, secret_key))
    /\ UNCHANGED <<backend, secret_key, token0, auto_register, start_first, status_resp,
                   first_status, status, start_res, qr_resp, parseVars, opVars, appVars>>

\* The second status poll, after the token was stored
StatusRetry ==
    /\ pc = "status2"
    /\ \E o \in StatusOutcomes(backend) :
        LET resp == status_method(backend, o)
            raw == RawStatus(backend, resp)
            st == Upper(raw)
            nxt == AfterStatus(backend, st, resp, auto_register)
        IN  /\ requests' = Append(requests, Req("status", backend, token, secret_key))
            /\ calls' = Append(calls, "status")
            /\ status_resp' = resp
            /\ IF raw = NULL
               THEN pc' = "raised" /\ UNCHANGED <<status, outcome>>
               ELSE status' = st /\ pc' = nxt.pc /\ outcome' = nxt.outcome
    /\ UNCHANGED <<backend, secret_key, token, token0, auto_register, start_first, first_status,
                   create_res, start_res, qr_resp, parseVars, opVars, appVars>>

\* What follows start_session returning res
AfterStart(res) ==
    /\ start_res' = res
    /\ IF backend = "wwebjs"
       THEN pc' = "qr" /\ UNCHANGED outcome
       ELSE IF status = "CONNECTED"
       THEN IF GetOrNone(res, "status") = "CONNECTED"
            THEN pc' = "device" /\ UNCHANGED outcome
            ELSE pc' = "done" /\ outcome' = VerbatimOutcome(res)
       ELSE IF Truthy(GetOrNone(res, "qrcode"))
            THEN pc' = "done" /\ outcome' = AwaitingOutcome(res.qrcode, token)
            ELSE pc' = "qr" /\ UNCHANGED outcome

\* start_res = self.start_session(...): the first start request
StartSession ==
    /\ pc = "start"
    /\ \E o \in StartOutcomes(backend) :
        LET res == send_rest_request(backend, o)
        IN  /\ start_first' = res
            /\ IF backend = "wppconnect" /\ ~Truthy(GetOrNone(res, "status"))
               THEN pc' = "start_retry" /\ UNCHANGED <<start_res, outcome>>
               ELSE AfterStart(res)
    /\ requests' = Append(requests, Req("start", backend, token, secret_key))
    /\ calls' = Append(calls, "start_session")
    /\ UNCHANGED <<backend, secret_key, token, token0, auto_register, status_resp,
                   first_status, status, create_res, qr_resp, parseVars, opVars, appVars>>

\* start_session (WPPConnect): the request issued again when the first answer
\* carried no status
StartRetry ==
    /\ pc = "start_retry"
    /\ \E o \in StartOutcomes(backend) : AfterStart(send_rest_request(backend, o))
    /\ requests' = Append(requests, Req("start", backend, token, secret_key))
    /\ UNCHANGED <<backend, secret_key, token, token0, auto_register, start_first, status_resp,
                   first_status, status, create_res, qr_resp, calls, parseVars, opVars, appVars>>


\* A call that either returns a dict or lets an exception out
Returned(d) == [raised |-> FALSE, value |-> d]
Raised == [raised |-> TRUE, value |-> EmptyDict]

\* WPPConnectAPI.qrcode (wppconnect_api.py): requests.get outside any try
qrcode_wpp(o) ==
    CASE o.kind = "raw" -> Returned([qrcode_base64 |-> B64(o.content)])
      [] o.kind \in {"http401", "http500"} -> Returned(Failed(o.content))
      [] OTHER -> Raised

\* WPPConnectAPI.qrcode (wwebjs_wppconnect_api.py): response["raw"] is a
\* KeyError, which the except clause does not catch, unless the body was bytes
qrcode_wwebjs(o) ==
    LET response == send_rest_request_wwebjs(o)
    IN  IF Has(response, "raw")
        THEN Returned([ok |-> "true",
                       qrcode_base64 |-> B64(response.raw),
                       qrcode |-> B64(response.raw)])
        ELSE Raised

\* The QR code register_session takes from qr_resp
QrFromResponse(b, resp) ==
    IF b = "wppconnect"
    THEN GetOrNone(resp, "qrcode")
    ELSE IF Truthy(GetOrNone(resp, "qrcode_base64")) THEN resp.qrcode_base64
    ELSE IF Truthy(GetOrNone(resp, "qr")) THEN resp.qr
    ELSE GetOrNone(resp, "qrcode")

\* qr_resp = self.qrcode(), then return AWAITING_QR_SCAN
Qrcode ==
    /\ pc = "qr"
    /\ \E o \in IF backend = "wppconnect" THEN QrOutcomesWpp ELSE QrOutcomesWwebjs :
        LET r == IF backend = "wppconnect" THEN qrcode_wpp(o) ELSE qrcode_wwebjs(o)
        IN  IF r.raised
            THEN pc' = "raised" /\ UNCHANGED <<qr_resp, outcome>>
            ELSE /\ qr_resp' = r.value
                 /\ pc' = "done"
                 /\ outcome' = AwaitingOutcome(QrFromResponse(backend, r.value), token)
    /\ requests' = Append(requests, Req("qrcode", backend, token, secret_key))
    /\ calls' = Append(calls, "qrcode")
    /\ UNCHANGED <<backend, secret_key, token, token0, auto_register, start_first, status_resp,
                   first_status, status, create_res, start_res, parseVars, opVars, appVars>>

\* device_info = self.get_host_device(), then return CONNECTED
HostDevice ==
    /\ pc = "device"
    /\ \E o \in DeviceOutcomes :
        outcome' = ConnectedOutcome(send_rest_request(backend, o), token)
    /\ pc' = "done"
    /\ requests' = Append(requests, Req("host-device", backend, token, secret_key))
    /\ calls' = Append(calls, "get_host_device")
    /\ UNCHANGED <<backend, secret_key, token, token0, auto_register, start_first, status_resp,
                   first_status, status, create_res, start_res, qr_resp, parseVars, opVars, appVars>>

---------------------------------------------------------------------------
(* Webhook payload values for parse_inbound_message *)

\* JSON values, tagged with their Python type.  The text of a str is a
\* sequence of pieces, the domain suffixes "@c.us" and "@g.us" being pieces of
\* their own; a dict is a function from its keys to values.
Null == [t |-> "null"]
Int == [t |-> "int"]
Str(str) == [t |-> "str", s |-> str]
Bool(b) == [t |-> "bool", b |-> b]
List(items) == [t |-> "list", items |-> items]
Dict(d) == [t |-> "dict", d |-> d]

\* A key left out of a payload (for building payloads only)
Absent == [t |-> "absent"]
OptVal(k, v) == IF v = Absent THEN EmptyDict ELSE Entry(k, v)

\* bool(v)
TruthyVal(v) ==
    CASE v.t = "null" -> FALSE
      [] v.t = "str" -> v.s # <<>>
      [] v.t = "list" -> v.items # <<>>
      [] v.t = "bool" -> v.b
      [] v.t = "dict" -> DOMAIN v.d # {}
      [] OTHER -> TRUE

\* s.replace("@c.us", ""): every occurrence goes, wherever it stands
StripCUs(str) == SelectSeq(str, LAMBDA piece : piece # "@c.us")

\* What a call ends with: a dict ({} is EmptyDict) or an exception
ParseReturn(payload) == [raised |-> FALSE, payload |-> payload]
ParseEmpty == ParseReturn(EmptyDict)
ParseRaise == [raised |-> TRUE, payload |-> EmptyDict]

---------------------------------------------------------------------------
(* parse_inbound_message (wppconnect_api.py) *)

RecognizedEvents == {Str(<<"onmessage">>), Str(<<"onpollresponse">>), Str(<<"onack">>)}

\* event in ["onmessage", "onpollresponse", "onack"]
IsRecognizedEvent(event) == event \in RecognizedEvents

\* v.replace(...) raises AttributeError unless v is a str
CanReplace(v) == v.t = "str"

\* str(request.get(k, "").replace("@c.us", ""))
StrippedId(f, k) == Str(StripCUs(Get(f, k, Str(<<>>)).s))

\* The dict literal: ids with "@c.us" removed, the other keys copied
InitialPayload(f, event) ==
    [message_id |-> Get(f, "id", Str(<<>>)),
     event_type |-> Get(f, "dataType", event),
     message_type |-> Get(f, "type", Str(<<"unknown">>)),
     author |-> StrippedId(f, "author"),
     sender |-> StrippedId(f, "from"),
     receiver |-> StrippedId(f, "to"),
     caption |-> Get(f, "caption", Str(<<>>)),
     location |-> Get(f, "location", Dict(EmptyDict)),
     fromMe |-> Get(f, "fromMe", Bool(FALSE)),
     isGroup |-> Get(f, "isGroupMsg", Bool(FALSE)),
     isForwarded |-> Get(f, "isForwarded", Bool(FALSE)),
     sender_name |-> Get(f, "notifyName", Str(<<>>))]

\* "fromMe correction if misplaced"
UnwrapFromMe(p) ==
    IF p.fromMe.t = "dict"
    THEN Put(p, "fromMe", Get(p.fromMe.d, "fromMe", Bool(FALSE)))
    ELSE p

\* "message id extraction in the event of weird nested struct"
UnwrapMessageId(p) ==
    IF p.message_id.t = "dict"
    THEN Put(Put(p, "fromMe", Get(p.message_id.d, "fromMe", Bool(FALSE))),
             "message_id", Get(p.message_id.d, "id", Str(<<>>)))
    ELSE p

\* "quotedMsg/parent message"
AttachQuoted(p, f) ==
    IF Has(f, "quotedMsg") THEN Put(p, "quoted_message", f.quotedMsg) ELSE p

\* Mutant of GroupDetection: the group flag of the payload is trusted
GroupDetection_TrustsFlag(p) == p

\* "Group detection"
GroupDetection(p) ==
    IF TruthyVal(p.author) /\ TruthyVal(p.sender) /\ p.author # p.sender
    THEN Put(p, "isGroup", Bool(TRUE))
    ELSE p

\* payload["body"] of a chat message
ChatBody(f) == Get(f, "content", Get(f, "body", Str(<<>>)))

\* Whether the poll branch is the one taken
IsPollBranch(p) == p.event_type = Str(<<"onpollresponse">>)

\* The poll branch: msgId must be a dict and chatId a str, or it raises
PollBranch(p, f) ==
    LET msgId == Get(f, "msgId", Dict(EmptyDict))
        chatId == Get(f, "chatId", Str(<<>>))
    IN  IF msgId.t # "dict" \/ ~CanReplace(chatId)
        THEN ParseRaise
        ELSE ParseReturn(
                Put(Put(Put(Put(p,
                    "poll_id", Get(msgId.d, "_serialized", Str(<<>>))),
                    "selectedOptions", Get(f, "selectedOptions", Str(<<>>))),
                    "sender", Str(StripCUs(chatId.s))),
                    "message_type", Str(<<"poll">>)))

\* The if/elif chain on message_type
Dispatch(p, f) ==
    LET IsType(names) == p.message_type \in {Str(<<n>>) : n \in names}
    IN  CASE IsType({"chat"}) -> ParseReturn(Put(p, "body", ChatBody(f)))
          [] IsType({"image", "video", "document"}) ->
                ParseReturn(
                    Put(Put(Put(p,
                        "media", Get(f, "body", Str(<<>>))),
                        "filename", Get(f, "filename", Str(<<>>))),
                        "mime_type", Get(f, "mimetype", Str(<<>>))))
          [] IsType({"location"}) ->
                ParseReturn(
                    Put(p, "location",
                        Dict([latitude |-> Get(f, "lat", Str(<<>>)),
                              longitude |-> Get(f, "lng", Str(<<>>))])))
          [] IsType({"audio", "ptt", "sticker"}) ->
                ParseReturn(Put(p, "media", Get(f, "body", Str(<<>>))))
          [] IsType({"contacts", "vcard"}) ->
                ParseReturn(Put(p, "contact", Get(f, "body", Dict(EmptyDict))))
          [] OTHER -> IF IsPollBranch(p) THEN PollBranch(p, f) ELSE ParseReturn(p)

\* The body of the try block
ParseBody_wpp(req) ==
    IF req.t # "dict"
    THEN ParseRaise     \* request.get: AttributeError
    ELSE LET f == req.d
             event == Get(f, "event", Null)
         IN  IF ~IsRecognizedEvent(event)
             THEN ParseEmpty
             ELSE IF \E k \in {"author", "from", "to"} :
                        ~CanReplace(Get(f, k, Str(<<>>)))
             THEN ParseRaise
             ELSE Dispatch(
                    GroupDetection(
                      AttachQuoted(
                        UnwrapMessageId(UnwrapFromMe(InitialPayload(f, event))), f)), f)

\* Mutant of parse_inbound_message_wpp: no except clause
parse_inbound_message_NoExcept(req) == ParseBody_wpp(req)

\* Mutant of parse_inbound_message_wpp: the payload dict outlives the call, so
\* the keys the call before it wrote are still there
parse_inbound_message_Shared(req) ==
    LET r == ParseBody_wpp(req)
    IN  IF r.raised \/ r.payload = EmptyDict
        THEN ParseEmpty
        ELSE IF earlier = <<>>
        THEN r
        ELSE ParseReturn(r.payload @@ earlier[Len(earlier)].result.payload)

\* parse_inbound_message: the try block, and {} from the except clause
parse_inbound_message_wpp(req) ==
    LET r == ParseBody_wpp(req)
    IN  IF r.raised THEN ParseEmpty ELSE r

---------------------------------------------------------------------------
(* parse_inbound_message (wwebjs_wppconnect_api.py), statement by statement *)

\* request.get(key, "").replace("@c.us", "") of lines 132-134
Replaced_wwebjs(f, key) ==
    LET v == IF key \in DOMAIN f THEN f[key] ELSE Str(<<>>)
    IN  IF v.t = "str"
        THEN [raised |-> FALSE, value |-> Str(SelectSeq(v.s, LAMBDA x : x # "@c.us"))]
        ELSE [raised |-> TRUE, value |-> Null]

\* Lines 128-141: the payload dict literal
Literal_wwebjs(f, event) ==
    [message_id |-> IF "id" \in DOMAIN f THEN f.id ELSE Str(<<>>),
     event_type |-> IF "dataType" \in DOMAIN f THEN f.dataType ELSE event,
     message_type |-> IF "type" \in DOMAIN f THEN f.type ELSE Str(<<"unknown">>),
     author |-> Replaced_wwebjs(f, "author").value,
     sender |-> Replaced_wwebjs(f, "from").value,
     receiver |-> Replaced_wwebjs(f, "to").value,
     caption |-> IF "caption" \in DOMAIN f THEN f.caption ELSE Str(<<>>),
     location |-> IF "location" \in DOMAIN f THEN f.location ELSE Dict(EmptyDict),
     fromMe |-> IF "fromMe" \in DOMAIN f THEN f.fromMe ELSE Bool(FALSE),
     isGroup |-> IF "isGroupMsg" \in DOMAIN f THEN f.isGroupMsg ELSE Bool(FALSE),
     isForwarded |-> IF "isForwarded" \in DOMAIN f THEN f.isForwarded ELSE Bool(FALSE),
     sender_name |-> IF "notifyName" \in DOMAIN f THEN f.notifyName ELSE Str(<<>>)]

\* Lines 143-144: if isinstance(payload["fromMe"], dict)
FromMe_wwebjs(p) ==
    IF p.fromMe.t = "dict"
    THEN [p EXCEPT !.fromMe =
            IF "fromMe" \in DOMAIN p.fromMe.d THEN p.fromMe.d.fromMe ELSE Bool(FALSE)]
    ELSE p

\* Lines 146-148: if isinstance(payload["message_id"], dict)
MessageId_wwebjs(p) ==
    IF p.message_id.t = "dict"
    THEN LET nested == p.message_id.d
         IN  [p EXCEPT
                !.fromMe = IF "fromMe" \in DOMAIN nested THEN nested.fromMe
                           ELSE Bool(FALSE),
                !.message_id = IF "id" \in DOMAIN nested THEN nested.id
                               ELSE Str(<<>>)]
    ELSE p

\* Lines 150-151: if "quotedMsg" in request
Quoted_wwebjs(p, f) ==
    IF "quotedMsg" \in DOMAIN f THEN [quoted_message |-> f.quotedMsg] @@ p ELSE p

\* Lines 153-158: author and sender both non-empty and different
IsGroup_wwebjs(p) ==
    IF p.author.s # <<>> /\ p.sender.s # <<>> /\ p.author # p.sender
    THEN [p EXCEPT !.isGroup = Bool(TRUE)]
    ELSE p

\* Mutant of Content_wwebjs: body is looked up before content
Content_wwebjs_BodyFirst(f) ==
    IF "body" \in DOMAIN f THEN f.body
    ELSE IF "content" \in DOMAIN f THEN f.content
    ELSE Str(<<>>)

\* Line 161: request.get("content", request.get("body", ""))
Content_wwebjs(f) ==
    IF "content" \in DOMAIN f THEN f.content
    ELSE IF "body" \in DOMAIN f THEN f.body
    ELSE Str(<<>>)

\* Lines 160-179: the if/elif chain
Chain_wwebjs(p, f) ==
    LET type == p.message_type
        body(default) == IF "body" \in DOMAIN f THEN f.body ELSE default
        text(key) == IF key \in DOMAIN f THEN f[key] ELSE Str(<<>>)
    IN  IF type = Str(<<"chat">>)
        THEN ParseReturn([body |-> Content_wwebjs(f)] @@ p)
        ELSE IF type \in {Str(<<"image">>), Str(<<"video">>), Str(<<"document">>)}
        THEN ParseReturn([media |-> body(Str(<<>>)), filename |-> text("filename"),
                          mime_type |-> text("mimetype")] @@ p)
        ELSE IF type = Str(<<"location">>)
        THEN ParseReturn([p EXCEPT !.location =
                            Dict([latitude |-> text("lat"), longitude |-> text("lng")])])
        ELSE IF type \in {Str(<<"audio">>), Str(<<"ptt">>), Str(<<"sticker">>)}
        THEN ParseReturn([media |-> body(Str(<<>>))] @@ p)
        ELSE IF type \in {Str(<<"contacts">>), Str(<<"vcard">>)}
        THEN ParseReturn([contact |-> body(Dict(EmptyDict))] @@ p)
        ELSE IF p.event_type = Str(<<"onpollresponse">>)
        THEN LET msgId == IF "msgId" \in DOMAIN f THEN f.msgId ELSE Dict(EmptyDict)
                 chatId == Replaced_wwebjs(f, "chatId")
             IN  IF msgId.t # "dict" \/ chatId.raised
                 THEN ParseRaise
                 ELSE ParseReturn(
                        [poll_id |-> IF "_serialized" \in DOMAIN msgId.d
                                     THEN msgId.d._serialized ELSE Str(<<>>),
                         selectedOptions |-> text("selectedOptions")]
                        @@ [p EXCEPT !.sender = chatId.value,
                                     !.message_type = Str(<<"poll">>)])
        ELSE ParseReturn(p)

\* Lines 123-181: the try block
ParseBody_wwebjs(req) ==
    IF req.t # "dict"
    THEN ParseRaise
    ELSE LET f == req.d
             event == IF "event" \in DOMAIN f THEN f.event ELSE Null
         IN  IF event \notin {Str(<<"onmessage">>), Str(<<"onpollresponse">>),
                              Str(<<"onack">>)}
             THEN ParseEmpty
             ELSE IF \/ Replaced_wwebjs(f, "author").raised
                     \/ Replaced_wwebjs(f, "from").raised
                     \/ Replaced_wwebjs(f, "to").raised
             THEN ParseRaise
             ELSE Chain_wwebjs(
                    IsGroup_wwebjs(
                      Quoted_wwebjs(
                        MessageId_wwebjs(FromMe_wwebjs(Literal_wwebjs(f, event))), f)), f)

\* parse_inbound_message: the try block, and {} from lines 183-185
parse_inbound_message_wwebjs(req) ==
    LET r == ParseBody_wwebjs(req)
    IN  IF r.raised THEN ParseEmpty ELSE r

---------------------------------------------------------------------------
(* The payloads parse_inbound_message is applied to *)

Text(word) == Str(<<word>>)
Individual(number) == Str(<<number, "@c.us">>)
Group(name) == Str(<<name, "@g.us">>)

\* An id in which "@c.us" is followed by more text
Embedded(number) == Str(<<number, "@c.us", ".old">>)

\* Who wrote to whom: ids with either suffix, bare, blank, absent, not a str
IdentityPayloads ==
    {Dict(OptVal("event", e) @@ [type |-> Text("chat"), id |-> Text("m1")] @@
          OptVal("author", a) @@ OptVal("from", fr) @@ OptVal("to", to) @@
          OptVal("isGroupMsg", g)) :
        e \in {Absent, Text("onmessage"), Text("onack"), Text("unknown_event")},
        a \in {Absent, Individual("111"), Individual("222"), Text("111"), Str(<<>>),
               Null, Int},
        fr \in {Absent, Individual("111"), Group("g1"), Embedded("111"), Str(<<>>), Int},
        to \in {Absent, Individual("222"), Null},
        g \in {Absent, Bool(TRUE), Bool(FALSE)}}

\* Poll responses, well formed or not, also carrying a type or a dataType
PollPayloads ==
    {Dict(Entry("event", e) @@ OptVal("dataType", dt) @@ OptVal("type", ty) @@
          OptVal("msgId", m) @@ OptVal("chatId", c) @@ OptVal("selectedOptions", o) @@
          OptVal("from", fr) @@ OptVal("author", a)) :
        e \in {Text("onpollresponse"), Text("onmessage")},
        dt \in {Absent, Text("onpollresponse"), Text("onmessage")},
        ty \in {Absent, Text("chat"), Text("image"), Text("poll_response")},
        m \in {Absent, Text("p1"), Dict(EmptyDict),
               Dict(Entry("_serialized", Text("p1")))},
        c \in {Absent, Individual("222"), Group("g1"), Null},
        o \in {Absent, List(<<"A">>)},
        fr \in {Absent, Individual("111")},
        a \in {Absent, Individual("333")}}

MessageTypes ==
    {"chat", "image", "video", "document", "location", "audio", "ptt", "sticker",
     "contacts", "vcard", "revoked"}

\* Messages of every type, with scalar or nested id and fromMe
ContentPayloads ==
    {Dict([event |-> Text("onmessage"), from |-> Individual("111"),
           filename |-> Text("photo.jpg"), mimetype |-> Text("image/jpeg"),
           caption |-> Text("Check this out"), lat |-> Text("51.5"),
           lng |-> Text("-0.1"), notifyName |-> Text("John Doe")] @@
          OptVal("type", ty) @@ OptVal("body", b) @@ OptVal("content", c) @@
          OptVal("id", id) @@ OptVal("fromMe", fm) @@ OptVal("quotedMsg", q)) :
        ty \in {Absent} \cup {Text(n) : n \in MessageTypes},
        b \in {Absent, Text("hi")},
        c \in {Absent, Text("old")},
        id \in {Absent, Text("m1"), Dict([id |-> Text("m2")]),
                Dict([id |-> Text("m2"), fromMe |-> Bool(TRUE)])},
        fm \in {Absent, Bool(TRUE), Bool(FALSE), Dict([fromMe |-> Bool(TRUE)])},
        q \in {Absent, Dict([id |-> Text("m0")])}}

\* None, a str, a list
NonDictPayloads == {Null, Text("not a dict"), List(<<"item">>)}

Payloads == IdentityPayloads \cup PollPayloads \cup ContentPayloads \cup NonDictPayloads

\* Before parse_inbound_message has been applied
NoResult == ParseReturn(EmptyDict)

\* result = WPPConnectAPI.parse_inbound_message(request)
Normalize ==
    /\ pstate = "ready"
    /\ result' = parse_inbound_message_wpp(request)
    /\ pstate' = IF result'.raised THEN "raised" ELSE "returned"
    /\ UNCHANGED <<request, earlier, regVars, opVars, appVars>>

\* The deliveries a webhook receives one after another
MaxDeliveries == 3

\* Payloads delivered more than once: a chat, a group message, a poll, a
\* nested id, a payload that raises inside, an unknown event, no dict
RepeatPayloads ==
    {Dict([event |-> Text("onmessage"), type |-> Text("chat"), id |-> Text("m1"),
           from |-> Individual("111"), body |-> Text("hi")]),
     Dict([event |-> Text("onmessage"), type |-> Text("chat"), id |-> Text("m1"),
           from |-> Group("g1"), author |-> Individual("111")]),
     Dict([event |-> Text("onpollresponse"),
           msgId |-> Dict(Entry("_serialized", Text("p1"))),
           chatId |-> Individual("222"), selectedOptions |-> List(<<"A">>)]),
     Dict([event |-> Text("onmessage"), type |-> Text("image"),
           id |-> Dict([id |-> Text("m2"), fromMe |-> Bool(TRUE)]),
           quotedMsg |-> Dict([id |-> Text("m0")])]),
     Dict([event |-> Text("onmessage"), from |-> Int]),
     Dict([event |-> Text("unknown_event")]),
     Null}

\* The next webhook delivery: the call made is history, another payload arrives
NextDelivery ==
    /\ pstate = "returned"
    /\ Len(earlier) < MaxDeliveries - 1
    /\ earlier' = Append(earlier, [request |-> request, result |-> result])
    /\ request' \in RepeatPayloads
    /\ result' = NoResult
    /\ pstate' = "ready"
    /\ UNCHANGED <<regVars, opVars, appVars>>

\* result = WPPConnectAPI.parse_inbound_message(request), the class being the
\* one of wwebjs_wppconnect_api.py (as chat_cli_webhook.py imports it)
NormalizeWwebjs ==
    /\ ostate = "ready"
    /\ op.name = "parse_inbound_message"
    /\ ret' = parse_inbound_message_wwebjs(request)
    /\ ostate' = IF ret'.raised THEN "raised" ELSE "returned"
    /\ UNCHANGED <<op, sent, regVars, parseVars, appVars>>

---------------------------------------------------------------------------
(* _format_chat_id (wwebjs_wppconnect_api.py) *)

\* The pieces of text that contain "@"
AtPieces == {"@c.us", "@g.us", "@lid"}

\* "@" in phone
ContainsAt(phone) == \E i \in DOMAIN phone : phone[i] \in AtPieces

\* "@g.us" if is_group else "@c.us"
ChatSuffix(is_group) == IF is_group THEN "@g.us" ELSE "@c.us"

\* Mutant of format_chat_id: the suffix is appended to every id
format_chat_id_AlwaysAppends(phone, is_group) == Append(phone, ChatSuffix(is_group))

\* WPPConnectAPI._format_chat_id
format_chat_id(phone, is_group) ==
    IF ContainsAt(phone) THEN phone ELSE Append(phone, ChatSuffix(is_group))

\* The longest id, in pieces
MaxPieces == 3

RECURSIVE TextsUpTo(_)
\* The texts of at most n pieces
TextsUpTo(n) ==
    IF n = 0
    THEN {<<>>}
    ELSE LET shorter == TextsUpTo(n - 1)
         IN  shorter \cup {Append(t, piece) : t \in shorter,
                                              piece \in {"111"} \cup AtPieces}

\* The ids _format_chat_id is applied to
PhoneIds == TextsUpTo(MaxPieces)

\* chat_id = self._format_chat_id(phone, is_group)
FormatChatId ==
    /\ ostate = "ready"
    /\ op.name = "_format_chat_id"
    /\ ret' = format_chat_id(op.phone, op.is_group)
    /\ ostate' = "returned"
    /\ UNCHANGED <<op, sent, regVars, parseVars, appVars>>

---------------------------------------------------------------------------
(* status() of the WWebJS flavor, called on its own *)

\* The messages of a session/status answer: the five the code names, one it
\* does not, a blank one, none
StatusMessages ==
    {NONE, "", "session_not_found", "session closed", "browser tab closed",
     "session_not_connected", "session_connected", "something else"}

\* session/status bodies with every message, state and error
StatusAnswers ==
    {Opt("message", m) @@ Opt("state", st) @@ Opt("error", e) @@
     Entry("success", IF m = "session_connected" THEN "true" ELSE "false") :
        m \in StatusMessages,
        st \in {NONE, NULL, "", "CONNECTED", "QRCODE", "CLOSED"},
        e \in {NONE, "Unauthorized"}}

\* What GET session/status/{id} can come back with
StatusCalls ==
    {[name |-> "status", outcome |-> o] :
        o \in Failures \cup NoJson \cup {Json(d) : d \in StatusAnswers}}

\* result = self.status()
StatusCall ==
    /\ ostate = "ready"
    /\ op.name = "status"
    /\ ret' = status_method("wwebjs", op.outcome)
    /\ sent' = Append(sent, Req("status", "wwebjs", token, secret_key))
    /\ ostate' = "returned"
    /\ UNCHANGED <<op, regVars, parseVars, appVars>>

---------------------------------------------------------------------------
(* The operations the WWebJS flavor does not support *)

\* The operations whose body is a single return of {"ok": False, "error": ...}
NotImplementedOps ==
    {"send_status_message", "send_mentioned_message", "send_list_message",
     "send_order_message", "add_product", "edit_product", "delete_product",
     "change_product_image", "get_products"}

UnsupportedOps ==
    NotImplementedOps \cup {"profile_exists", "send_buttons_message", "get_metrics"}

\* The error text of each
UnsupportedText(name) ==
    CASE name \in NotImplementedOps -> name \o " not yet implemented for WWebJS"
      [] name = "send_buttons_message" ->
            "send_buttons_message deprecated and not supported in WWebJS"
      [] OTHER -> name \o " not supported in WWebJS"

\* What a method call comes to: a value or an exception, and the backend
\* requests it issued
Completed(value, reqs) == [raised |-> FALSE, value |-> value, requests |-> reqs]
Threw(reqs) == [raised |-> TRUE, value |-> EmptyDict, requests |-> reqs]

\* Mutant of unsupported: the operation raises instead of answering
unsupported_Raises(name, args) == Threw(<<>>)

\* The body of an unsupported operation: the arguments are not looked at
unsupported(name, args) == Completed(Failed(UnsupportedText(name)), <<>>)

\* Argument values of any type
AnyArguments == {Null, Int, Text("5511999999999"), List(<<"item">>), Dict(EmptyDict)}

\* result = self.<unsupported operation>(...)
Unsupported ==
    /\ ostate = "ready"
    /\ op.name \in UnsupportedOps
    /\ LET r == unsupported(op.name, op.args)
       IN  /\ ret' = r.value
           /\ sent' = sent \o r.requests
           /\ ostate' = IF r.raised THEN "raised" ELSE "returned"
    /\ UNCHANGED <<op, regVars, parseVars, appVars>>

---------------------------------------------------------------------------
(* send_rest_request, called on its own *)

\* The exceptions of requests that are a Timeout, and those that are not
TimeoutKinds == {"timeout", "connect_timeout"}
OtherFailureKinds == {"neterr", "http401", "http500", "http504"}

\* Everything one request can come back with: each failure, a body that is
\* no JSON, no body, and JSON bodies with and without a success flag
TransportOutcomes ==
    {Outcome(k, EmptyDict, "") : k \in TimeoutKinds \cup OtherFailureKinds}
    \cup NoJson
    \cup {Json(d) : d \in StatusAnswers \cup StatusBodiesWpp}
    \cup {Json(Opt("success", ok) @@ Opt("ok", k) @@ Opt("error", e)) :
            ok \in {NONE, "true", "false"}, k \in {NONE, "true", "false"},
            e \in {NONE, "Timeout after 10.0 seconds"}}

\* result = self.send_rest_request(endpoint, ...)
SendRestRequest ==
    /\ ostate = "ready"
    /\ op.name = "send_rest_request"
    /\ ret' = send_rest_request(op.backend, op.outcome)
    /\ sent' = Append(sent, Req(op.endpoint, op.backend, token, secret_key))
    /\ ostate' = "returned"
    /\ UNCHANGED <<op, regVars, parseVars, appVars>>

---------------------------------------------------------------------------
(* ChatCLI.connect_session (chat_cli_webhook.py): the phone of a CONNECTED
   outcome's device info *)

Unknown == Str(<<"Unknown">>)

\* wid.get("user", wid.get("_serialized", "Unknown")) for a dict, wid itself
\* for a str, "Unknown" for anything else
PhoneFromWid(device) ==
    LET wid == Get(device, "wid", Dict(EmptyDict))
    IN  CASE wid.t = "dict" -> Get(wid.d, "user", Get(wid.d, "_serialized", Unknown))
          [] wid.t = "str" -> wid
          [] OTHER -> Unknown

\* device.get("phone", device.get("me", {}).get("user", "Unknown")): the
\* default is computed first, and .get on a me that is no dict raises
PhoneFromPhoneOrMe(device) ==
    LET me == Get(device, "me", Dict(EmptyDict))
    IN  IF me.t # "dict"
        THEN Threw(<<>>)
        ELSE Completed(Get(device, "phone", Get(me.d, "user", Unknown)), <<>>)

\* "Try response.phoneNumber format": a non-empty phoneNumber with every
\* "@c.us" removed, the phone as it was otherwise
PhoneFromResponse(device, phone) ==
    LET response == Get(device, "response", Dict(EmptyDict))
    IN  IF response.t # "dict"
        THEN Threw(<<>>)
        ELSE LET phone_num == Get(response.d, "phoneNumber", Str(<<>>))
             IN  IF ~TruthyVal(phone_num)
                 THEN Completed(phone, <<>>)
                 ELSE IF phone_num.t = "str"
                 THEN Completed(Str(StripCUs(phone_num.s)), <<>>)
                 ELSE Threw(<<>>)

\* Lines 117-138: phone = "Unknown" and the three steps that replace it
connected_phone(device) ==
    IF device.t # "dict"
    THEN Completed(Unknown, <<>>)
    ELSE LET first == PhoneFromWid(device.d)
             second == IF first = Unknown
                       THEN PhoneFromPhoneOrMe(device.d)
                       ELSE Completed(first, <<>>)
         IN  IF second.raised \/ second.value # Unknown
             THEN second
             ELSE PhoneFromResponse(device.d, second.value)

\* Device infos: each of the five places with a value, blank, or left out,
\* a wid that carries only _serialized, a me that is null
DeviceInfos ==
    {Dict(OptVal("wid", w) @@ OptVal("phone", p) @@ OptVal("me", m)
          @@ OptVal("response", r)) :
        w \in {Absent, Dict(EmptyDict), Dict([user |-> Text("111")]),
               Dict([user |-> Str(<<>>)]),
               Dict([_serialized |-> Individual("111")]),
               Individual("444"), Str(<<>>)},
        p \in {Absent, Text("222"), Str(<<>>)},
        m \in {Absent, Dict([user |-> Text("555")]), Dict([user |-> Str(<<>>)]), Null},
        r \in {Absent, Dict(EmptyDict), Dict([phoneNumber |-> Individual("333")]),
               Dict([phoneNumber |-> Str(<<>>)])}}
    \cup {Null, Text("device")}

\* print(f"Connected as: {phone}") with device = result.get("device", {})
ConnectedPhone ==
    /\ ostate = "ready"
    /\ op.name = "connect_session"
    /\ LET r == connected_phone(op.device)
       IN  /\ ret' = r.value
           /\ ostate' = IF r.raised THEN "raised" ELSE "returned"
    /\ UNCHANGED <<op, sent, regVars, parseVars, appVars>>

---------------------------------------------------------------------------
(* WPPConnectAPI.__init__ of both flavors *)

\* The default of the timeout argument, in seconds
DefaultTimeout == 10

RECURSIVE RStrip(_)
\* api_url.rstrip("/"), a URL being a sequence of pieces of which "/" is one
RStrip(url) ==
    IF url # <<>> /\ url[Len(url)] = "/"
    THEN RStrip(SubSeq(url, 1, Len(url) - 1))
    ELSE url

\* secret_key or os.environ.get("WPP_SECRET_KEY", "")
SecretKeyOrEnv(key, env) ==
    IF Truthy(key) THEN key ELSE IF env = NONE THEN "" ELSE env

\* The arguments of a constructor call, and WPP_SECRET_KEY of its environment
Args(u, k, e, t) ==
    [api_url |-> u, session |-> Session, token |-> "token123", secret_key |-> k,
     env |-> e, timeout |-> t]

\* Constructor calls: a URL with no, one and several trailing separators, a
\* secret key given, taken from the environment, or missing from both
CtorArgs ==
    {Args(<<"http://localhost:8080">>, NONE, NONE, DefaultTimeout),
     Args(<<"http://localhost:8080", "/">>, "secret", NONE, 30),
     Args(<<"http://localhost:8080", "/", "api", "/", "/">>, NONE, "secret",
          DefaultTimeout),
     Args(<<"http://localhost:8080">>, "", "secret", 30)}

\* self.api_url, self.session and self.timeout as __init__ assigns them
Constructed(args) ==
    /\ given = args
    /\ api_url = RStrip(args.api_url)
    /\ session = args.session
    /\ timeout = args.timeout

\* A client constructed with a plain URL and the default timeout; token and
\* secret key are the ones the specification starts with
CtorIdle ==
    Constructed([api_url |-> <<"http://localhost:8080">>, session |-> Session,
                 token |-> token, secret_key |-> secret_key, env |-> NONE,
                 timeout |-> DefaultTimeout])

---------------------------------------------------------------------------
(* The wait-for-connection loops: wait_for_connection (get_token.py) and the
   QR wait of ChatCLI.connect_session (chat_cli_webhook.py) *)

\* The timeout argument of wait_for_connection, in seconds
WaitTimeout == 6

\* The polls of the QR wait: range(60) in the code
PollBudget == 3

\* The longest a request takes, in seconds
MaxRequestSeconds == 1

\* time.sleep(3) of wait_for_connection, time.sleep(1) of connect_session
TokenPollDelay == 3
ChatPollDelay == 1

\* check_session_status: the JSON body of a 2xx answer, {} after an exception
\* of requests
check_session_status(o) == IF o.kind = "json" THEN o.body ELSE EmptyDict

\* What GET status-session comes back with while the QR code is being scanned
TokenStatusOutcomes ==
    {Json(Opt("status", st)) :
        st \in {NONE, NULL, "CONNECTED", "connected", "QRCODE"}}
    \cup {Outcome(k, EmptyDict, "") : k \in {"timeout", "http500"}}

\* What GET session/status comes back with while the QR code is being scanned
ChatStatusOutcomes ==
    {Json([success |-> "true", state |-> "CONNECTED", message |-> "session_connected"]),
     Json([success |-> "false", state |-> "QRCODE", message |-> "session_not_connected"]),
     Json([success |-> "false", message |-> "session_not_found"]),
     Outcome("timeout", EmptyDict, "")}

\* No loop is running
WaitIdle ==
    /\ waiter = "none"
    /\ wpc = "idle"
    /\ clock = 0
    /\ start_time = 0
    /\ iter = 0
    /\ polls = <<>>
    /\ wresult = "none"

\* while time.time() - start_time < timeout, and `return False` after it
TokenTest ==
    /\ waiter = "get_token"
    /\ wpc = "test"
    /\ IF clock - start_time < WaitTimeout
       THEN wpc' = "poll" /\ UNCHANGED wresult
       ELSE wpc' = "done" /\ wresult' = "false"
    /\ UNCHANGED <<waiter, clock, start_time, iter, polls, regVars, parseVars,
                   opVars, ctorVars, queueVars, serverVars>>

\* status_result = check_session_status(...);
\* status = status_result.get("status", "").upper(); if status == "CONNECTED"
TokenPoll ==
    /\ waiter = "get_token"
    /\ wpc = "poll"
    /\ \E o \in TokenStatusOutcomes, d \in 0..MaxRequestSeconds :
        LET raw == Get(check_session_status(o), "status", "")
        IN  /\ polls' = Append(polls, [at |-> clock, status |-> raw])
            /\ clock' = clock + d
            /\ wpc' = IF raw = NULL THEN "raised"    \* None.upper()
                      ELSE IF Upper(raw) = "CONNECTED" THEN "device"
                      ELSE "sleep"
    /\ UNCHANGED <<waiter, start_time, iter, wresult, regVars, parseVars, opVars,
                   ctorVars, queueVars, serverVars>>

\* time.sleep(3)
TokenSleep ==
    /\ waiter = "get_token"
    /\ wpc = "sleep"
    /\ clock' = clock + TokenPollDelay
    /\ wpc' = "test"
    /\ UNCHANGED <<waiter, start_time, iter, polls, wresult, regVars, parseVars,
                   opVars, ctorVars, queueVars, serverVars>>

\* The host-device request inside try/except, then `return True`; the request
\* is made without a timeout
TokenDevice ==
    /\ waiter = "get_token"
    /\ wpc = "device"
    /\ \E d \in 0..MaxRequestSeconds : clock' = clock + d
    /\ wpc' = "done"
    /\ wresult' = "true"
    /\ UNCHANGED <<waiter, start_time, iter, polls, regVars, parseVars, opVars,
                   ctorVars, queueVars, serverVars>>

\* for _ in range(60), and `return False` after it
ChatTest ==
    /\ waiter = "chat_cli"
    /\ wpc = "test"
    /\ IF iter < PollBudget
       THEN iter' = iter + 1 /\ wpc' = "sleep" /\ UNCHANGED wresult
       ELSE wpc' = "done" /\ wresult' = "false" /\ UNCHANGED iter
    /\ UNCHANGED <<waiter, clock, start_time, polls, regVars, parseVars, opVars,
                   ctorVars, queueVars, serverVars>>

\* time.sleep(1)
ChatSleep ==
    /\ waiter = "chat_cli"
    /\ wpc = "sleep"
    /\ clock' = clock + ChatPollDelay
    /\ wpc' = "poll"
    /\ UNCHANGED <<waiter, start_time, iter, polls, wresult, regVars, parseVars,
                   opVars, ctorVars, queueVars, serverVars>>

\* status_check = self.api.status(); if status_check.get("status") == "CONNECTED"
ChatPoll ==
    /\ waiter = "chat_cli"
    /\ wpc = "poll"
    /\ \E o \in ChatStatusOutcomes, d \in 0..MaxRequestSeconds :
        LET st == GetOrNone(status_method("wwebjs", o), "status")
        IN  /\ polls' = Append(polls, [at |-> clock, status |-> st])
            /\ clock' = clock + d
            /\ wpc' = IF st = "CONNECTED" THEN "device" ELSE "test"
    /\ UNCHANGED <<waiter, start_time, iter, wresult, regVars, parseVars, opVars,
                   ctorVars, queueVars, serverVars>>

\* device = self.api.get_host_device(), then `return True`
ChatDevice ==
    /\ waiter = "chat_cli"
    /\ wpc = "device"
    /\ \E d \in 0..MaxRequestSeconds : clock' = clock + d
    /\ wpc' = "done"
    /\ wresult' = "true"
    /\ UNCHANGED <<waiter, start_time, iter, polls, regVars, parseVars, opVars,
                   ctorVars, queueVars, serverVars>>

---------------------------------------------------------------------------
(* The webhook queue of chat_cli_webhook.py: the listener thread appends,
   process_incoming_messages of the chat thread removes *)

\* The deliveries one run receives
MaxArrivals == 3

\* The pieces of text that are digits
DigitPieces == {"111", "222", "333"}

\* ChatCLI.format_phone: an id with "@c.us" as it is, otherwise its digits
\* followed by "@c.us"
format_phone(phone) ==
    IF \E i \in DOMAIN phone : phone[i] = "@c.us"
    THEN phone
    ELSE Append(SelectSeq(phone, LAMBDA piece : piece \in DigitPieces), "@c.us")

\* What display_message comes to: a line printed, nothing printed because
\* parse_inbound_message gave {}, or the TypeError of datetime.fromtimestamp
\* for a timestamp that is no number
display_message(body) ==
    IF parse_inbound_message_wwebjs(body).payload = EmptyDict
    THEN "silent"
    ELSE IF Get(body.d, "timestamp", Int).t \notin {"int", "bool"}
    THEN "raised"
    ELSE "printed"

\* The JSON bodies delivered to /webhook: chat messages from the active chat,
\* to it, and from someone else, a payload without an event, one whose
\* timestamp is text, and JSON that is no object
QueuePayloads ==
    {Dict([event |-> Text("onmessage"), type |-> Text("chat"),
           from |-> Individual("111"), body |-> Text("hello")]),
     Dict([event |-> Text("onmessage"), type |-> Text("chat"),
           from |-> Individual("222"), to |-> Individual("111"),
           body |-> Text("hello")]),
     Dict([event |-> Text("onmessage"), type |-> Text("chat"),
           from |-> Individual("333"), body |-> Text("hello")]),
     Dict([from |-> Individual("111")]),
     Dict([event |-> Text("onmessage"), type |-> Text("chat"),
           from |-> Individual("111"), timestamp |-> Text("soon")]),
     List(<<>>)}

\* No delivery yet, process_incoming_messages not running
QueueIdle ==
    /\ message_queue = <<>>
    /\ acked = <<>>
    /\ qpc = "idle"
    /\ msg = Null
    /\ formatted_target = format_phone(<<"111">>)
    /\ snapshot = <<>>
    /\ removed = <<>>
    /\ displayed = <<>>
    /\ printed = <<>>

\* webhook(): data = request.json; message_queue.append(data);
\* return {"status": "received"}.  Each delivery is numbered as it arrives.
Webhook ==
    /\ Len(acked) < MaxArrivals
    /\ \E body \in QueuePayloads :
        LET delivery == [id |-> Len(acked) + 1, body |-> body]
        IN  /\ message_queue' = Append(message_queue, delivery)
            /\ acked' = Append(acked, delivery.id)
    /\ UNCHANGED <<qpc, msg, formatted_target, snapshot, removed, displayed, printed,
                   regVars, parseVars, opVars, ctorVars, waitVars, serverVars>>

\* process_incoming_messages(target_phone) is called:
\* formatted_target = self.format_phone(target_phone)
ProcessStart ==
    /\ qpc \in {"idle", "returned"}
    /\ qpc' = "test"
    /\ snapshot' = message_queue
    /\ UNCHANGED <<message_queue, acked, msg, formatted_target, removed, displayed,
                   printed, regVars, parseVars, opVars, ctorVars, waitVars,
                   serverVars>>

\* while message_queue:
ProcessTest ==
    /\ qpc = "test"
    /\ qpc' = IF message_queue = <<>> THEN "returned" ELSE "pop"
    /\ UNCHANGED <<message_queue, acked, msg, formatted_target, snapshot, removed,
                   displayed, printed, regVars, parseVars, opVars, ctorVars,
                   waitVars, serverVars>>

\* msg = message_queue.pop(0)
ProcessPop ==
    /\ qpc = "pop"
    /\ msg' = Head(message_queue)
    /\ message_queue' = Tail(message_queue)
    /\ removed' = Append(removed, Head(message_queue).id)
    /\ qpc' = "match"
    /\ UNCHANGED <<acked, formatted_target, snapshot, displayed, printed, regVars,
                   parseVars, opVars, ctorVars, waitVars, serverVars>>

\* sender = msg.get("from", ""); receiver = msg.get("to", "");
\* if sender == formatted_target or receiver == formatted_target:
\*     self.display_message(msg)
\* msg.get raises AttributeError for a msg that is no dict
ProcessMatch ==
    /\ qpc = "match"
    /\ IF msg.body.t # "dict"
       THEN qpc' = "raised" /\ UNCHANGED <<displayed, printed>>
       ELSE LET sender == Get(msg.body.d, "from", Str(<<>>))
                receiver == Get(msg.body.d, "to", Str(<<>>))
            IN  IF sender = Str(formatted_target) \/ receiver = Str(formatted_target)
                THEN /\ displayed' = Append(displayed, msg.id)
                     /\ printed' = IF display_message(msg.body) = "printed"
                                   THEN Append(printed, msg.id)
                                   ELSE printed
                     /\ qpc' = IF display_message(msg.body) = "raised"
                               THEN "raised"
                               ELSE "test"
                ELSE qpc' = "test" /\ UNCHANGED <<displayed, printed>>
    /\ UNCHANGED <<message_queue, acked, msg, formatted_target, snapshot, removed,
                   regVars, parseVars, opVars, ctorVars, waitVars, serverVars>>

---------------------------------------------------------------------------
(* WebhookServer and WebhookHandler.do_POST (webhook_server.py) *)

\* The HTTPServer objects one run creates
MaxServers == 3

\* The callables given to start: bound methods of the caller's object and a
\* plain function
Callbacks ==
    {[name |-> "handler1", kind |-> "method"],
     [name |-> "handler2", kind |-> "function"],
     [name |-> "handler3", kind |-> "method"]}

\* message_callback: Optional[Callable] = None
NoCallback == [name |-> "None", kind |-> "none"]

\* The bodies POSTed to the server: a message from someone else, one of our
\* own, an event that is not a message, and a body that is no JSON
ServerPayloads ==
    {Dict([event |-> Text("onmessage"), type |-> Text("chat"),
           from |-> Individual("111"), body |-> Text("hello")]),
     Dict([event |-> Text("onmessage"), type |-> Text("chat"),
           from |-> Individual("111"), body |-> Text("hello"),
           fromMe |-> Bool(TRUE)]),
     Dict([event |-> Text("onpresencechanged")]),
     Absent}

NoCall == [op |-> "none", cb |-> NoCallback, effect |-> "none", eligible |-> FALSE,
           handed_to |-> NoCallback]

\* WebhookServer.__init__, and the class attribute as the class body sets it
ServerIdle ==
    /\ running = FALSE
    /\ server = 0
    /\ server_thread = 0
    /\ created = 0
    /\ active_servers = {}
    /\ active_threads = {}
    /\ message_callback = NoCallback
    /\ current_cb = NoCallback
    /\ last_call = NoCall

\* WebhookServer.start(message_callback): nothing while running; otherwise
\* the class attribute is set, then HTTPServer(...) binds the port or raises
\* OSError, then the thread is started and running set
Start ==
    /\ running \/ created < MaxServers
    /\ \E cb \in Callbacks, bound \in BOOLEAN :
        IF running
        THEN /\ last_call' = [NoCall EXCEPT !.op = "start", !.cb = cb]
             /\ UNCHANGED <<running, server, server_thread, created, active_servers,
                            active_threads, message_callback, current_cb>>
        ELSE /\ message_callback' = cb
             /\ IF bound
                THEN /\ created' = created + 1
                     /\ server' = created + 1
                     /\ server_thread' = created + 1
                     /\ active_servers' = active_servers \cup {created + 1}
                     /\ active_threads' = active_threads \cup {created + 1}
                     /\ running' = TRUE
                     /\ current_cb' = cb
                     /\ last_call' = [NoCall EXCEPT !.op = "start", !.cb = cb,
                                                    !.effect = "started"]
                ELSE /\ last_call' = [NoCall EXCEPT !.op = "start", !.cb = cb,
                                                    !.effect = "raised"]
                     /\ UNCHANGED <<running, server, server_thread, created,
                                    active_servers, active_threads, current_cb>>
    /\ UNCHANGED <<regVars, parseVars, opVars, ctorVars, waitVars, queueVars>>

\* WebhookServer.stop(): shutdown() ends serve_forever, server_close() gives
\* the port back
Stop ==
    /\ IF server # 0 /\ running
       THEN /\ active_threads' = active_threads \ {server_thread}
            /\ active_servers' = active_servers \ {server}
            /\ running' = FALSE
            /\ last_call' = [NoCall EXCEPT !.op = "stop", !.effect = "stopped"]
       ELSE /\ last_call' = [NoCall EXCEPT !.op = "stop"]
            /\ UNCHANGED <<running, active_servers, active_threads>>
    /\ UNCHANGED <<server, server_thread, created, message_callback, current_cb,
                   regVars, parseVars, opVars, ctorVars, waitVars, queueVars>>

\* self.message_callback(parsed_message) in do_POST: the attribute is looked
\* up through the handler instance, so a plain function stored on the class
\* comes back bound to the handler and is called with two arguments, which
\* raises TypeError; a bound method is called with the message
CallThroughHandler(cb) == IF cb.kind = "function" THEN "raised" ELSE "called"

\* WebhookHandler.do_POST, served by the thread of an active server
DoPost ==
    /\ active_servers # {}
    /\ \E body \in ServerPayloads :
        LET parsed_message == parse_inbound_message_wpp(body).payload
            eligible == /\ body # Absent
                        /\ parsed_message # EmptyDict
                        /\ ~TruthyVal(Get(parsed_message, "fromMe", Bool(FALSE)))
            called == eligible /\ message_callback # NoCallback
        IN  last_call' =
                [op |-> "deliver",
                 cb |-> NoCallback,
                 effect |-> IF body = Absent THEN "500"
                            ELSE IF called /\ CallThroughHandler(message_callback) = "raised"
                            THEN "500"
                            ELSE "200",
                 eligible |-> eligible,
                 handed_to |-> IF called /\ CallThroughHandler(message_callback) = "called"
                               THEN message_callback
                               ELSE NoCallback]
    /\ UNCHANGED <<running, server, server_thread, created, active_servers,
                   active_threads, message_callback, current_cb, regVars, parseVars,
                   opVars, ctorVars, waitVars, queueVars>>

\* Nothing but the client: no loop is running, no webhook listener is up
AppIdle == CtorIdle /\ WaitIdle /\ QueueIdle /\ ServerIdle

---------------------------------------------------------------------------
(* The specifications *)

\* The client as constructed, register_session about to run
InitRegister ==
    /\ backend \in {"wppconnect", "wwebjs"}
    /\ secret_key \in {"", "secret"}
    /\ token = "token123"
    /\ token0 = token
    /\ auto_register \in BOOLEAN
    /\ pc = "status"
    /\ status_resp = EmptyDict
    /\ first_status = EmptyDict
    /\ status = ""
    /\ create_res = EmptyDict
    /\ start_res = EmptyDict
    /\ start_first = EmptyDict
    /\ qr_resp = EmptyDict
    /\ outcome = NoOutcome
    /\ requests = <<>>
    /\ calls = <<>>

ParseIdle ==
    /\ request = Null
    /\ result = NoResult
    /\ pstate = "idle"
    /\ earlier = <<>>

\* No other client method being called
OpIdle ==
    /\ op = [name |-> "none"]
    /\ ret = EmptyDict
    /\ sent = <<>>
    /\ ostate = "idle"

\* No register_session in progress
RegisterIdle ==
    /\ backend = "wppconnect"
    /\ secret_key = ""
    /\ token = "token123"
    /\ token0 = token
    /\ auto_register = TRUE
    /\ pc = "idle"
    /\ status_resp = EmptyDict
    /\ first_status = EmptyDict
    /\ status = ""
    /\ create_res = EmptyDict
    /\ start_res = EmptyDict
    /\ start_first = EmptyDict
    /\ qr_resp = EmptyDict
    /\ outcome = NoOutcome
    /\ requests = <<>>
    /\ calls = <<>>

\* A webhook payload arrives and is about to be parsed
InitParse ==
    /\ RegisterIdle
    /\ AppIdle
    /\ OpIdle
    /\ request \in Payloads
    /\ result = NoResult
    /\ pstate = "ready"
    /\ earlier = <<>>

NextParse == Normalize

SpecParse == InitParse /\ [][NextParse]_vars

\* Webhook deliveries parsed one after another
InitDeliveries ==
    /\ RegisterIdle
    /\ AppIdle
    /\ OpIdle
    /\ request \in RepeatPayloads
    /\ result = NoResult
    /\ pstate = "ready"
    /\ earlier = <<>>

NextDeliveries == Normalize \/ NextDelivery

SpecDeliveries == InitDeliveries /\ [][NextDeliveries]_vars

\* _format_chat_id about to be applied to an id
InitFormat ==
    /\ RegisterIdle
    /\ AppIdle
    /\ ParseIdle
    /\ op \in {[name |-> "_format_chat_id", phone |-> ph, is_group |-> g] :
                ph \in PhoneIds, g \in BOOLEAN}
    /\ ret = EmptyDict
    /\ sent = <<>>
    /\ ostate = "ready"

NextFormat == FormatChatId

SpecFormat == InitFormat /\ [][NextFormat]_vars

\* status() of the WWebJS flavor about to be called
InitStatus ==
    /\ RegisterIdle
    /\ AppIdle
    /\ ParseIdle
    /\ op \in StatusCalls
    /\ ret = EmptyDict
    /\ sent = <<>>
    /\ ostate = "ready"

NextStatus == StatusCall

SpecStatus == InitStatus /\ [][NextStatus]_vars

\* An unsupported operation of the WWebJS flavor about to be called
InitUnsupported ==
    /\ RegisterIdle
    /\ AppIdle
    /\ ParseIdle
    /\ op \in {[name |-> n, args |-> a] : n \in UnsupportedOps, a \in AnyArguments}
    /\ ret = EmptyDict
    /\ sent = <<>>
    /\ ostate = "ready"

NextUnsupported == Unsupported

SpecUnsupported == InitUnsupported /\ [][NextUnsupported]_vars

\* send_rest_request of either flavor about to be called
InitRequest ==
    /\ RegisterIdle
    /\ AppIdle
    /\ ParseIdle
    /\ op \in {[name |-> "send_rest_request", backend |-> b, endpoint |-> "ping",
                 outcome |-> o] :
                b \in {"wppconnect", "wwebjs"}, o \in TransportOutcomes}
    /\ ret = EmptyDict
    /\ sent = <<>>
    /\ ostate = "ready"

NextRequest == SendRestRequest

SpecRequest == InitRequest /\ [][NextRequest]_vars

\* One webhook payload about to be parsed by both flavors
InitBoth ==
    /\ RegisterIdle
    /\ AppIdle
    /\ request \in Payloads
    /\ result = NoResult
    /\ pstate = "ready"
    /\ earlier = <<>>
    /\ op = [name |-> "parse_inbound_message"]
    /\ ret = EmptyDict
    /\ sent = <<>>
    /\ ostate = "ready"

NextBoth == Normalize \/ NormalizeWwebjs

SpecBoth == InitBoth /\ [][NextBoth]_vars

\* connect_session holding a CONNECTED outcome, about to extract the phone
InitDevice ==
    /\ RegisterIdle
    /\ AppIdle
    /\ ParseIdle
    /\ op \in {[name |-> "connect_session", device |-> d] : d \in DeviceInfos}
    /\ ret = EmptyDict
    /\ sent = <<>>
    /\ ostate = "ready"

NextDevice == ConnectedPhone

SpecDevice == InitDevice /\ [][NextDevice]_vars

\* A wait loop about to start: start_time = time.time()
InitWait ==
    /\ RegisterIdle
    /\ CtorIdle
    /\ QueueIdle
    /\ ServerIdle
    /\ ParseIdle
    /\ OpIdle
    /\ waiter \in {"get_token", "chat_cli"}
    /\ wpc = "test"
    /\ clock \in {0, 5}
    /\ start_time = clock
    /\ iter = 0
    /\ polls = <<>>
    /\ wresult = "none"

NextWait ==
    \/ TokenTest
    \/ TokenPoll
    \/ TokenSleep
    \/ TokenDevice
    \/ ChatTest
    \/ ChatSleep
    \/ ChatPoll
    \/ ChatDevice

\* The steps that end in bounded time: sleeps, tests, and requests made with a
\* timeout.  The host-device request of wait_for_connection has none.
WaitTimed ==
    \/ TokenTest
    \/ TokenPoll
    \/ TokenSleep
    \/ ChatTest
    \/ ChatSleep
    \/ ChatPoll
    \/ ChatDevice

SpecWait == InitWait /\ [][NextWait]_vars /\ WF_vars(WaitTimed)

\* The same with every request answered
SpecWaitAnswered == InitWait /\ [][NextWait]_vars /\ WF_vars(NextWait)

\* The webhook listener of chat_cli_webhook.py is up, the queue is empty
InitQueue ==
    /\ RegisterIdle
    /\ CtorIdle
    /\ WaitIdle
    /\ ServerIdle
    /\ ParseIdle
    /\ OpIdle
    /\ message_queue = <<>>
    /\ acked = <<>>
    /\ qpc = "idle"
    /\ msg = Null
    /\ formatted_target \in {format_phone(phone) :
                                phone \in {<<"111">>, <<"+", "111">>, <<"111", "@c.us">>,
                                           <<"222">>}}
    /\ snapshot = <<>>
    /\ removed = <<>>
    /\ displayed = <<>>
    /\ printed = <<>>

NextQueue ==
    \/ Webhook
    \/ ProcessStart
    \/ ProcessTest
    \/ ProcessPop
    \/ ProcessMatch

SpecQueue == InitQueue /\ [][NextQueue]_vars

\* One WebhookServer as constructed
InitServer ==
    /\ RegisterIdle
    /\ CtorIdle
    /\ WaitIdle
    /\ QueueIdle
    /\ ServerIdle
    /\ ParseIdle
    /\ OpIdle

NextServer == Start \/ Stop \/ DoPost

SpecServer == InitServer /\ [][NextServer]_vars

Init == InitRegister /\ ParseIdle /\ OpIdle /\ AppIdle

Next ==
    \/ StatusPoll
    \/ CreateSessionNoSecret
    \/ CreateSession
    \/ StatusRetry
    \/ StartSession
    \/ StartRetry
    \/ Qrcode
    \/ HostDevice

Spec == Init /\ [][Next]_vars

---------------------------------------------------------------------------
(* A client in use: one operation after another on one object *)

\* api = WPPConnectAPI(api_url, session, token, secret_key, timeout)
InitClient ==
    /\ \E args \in CtorArgs :
        /\ Constructed(args)
        /\ WaitIdle
        /\ QueueIdle
        /\ ServerIdle
        /\ token = args.token
        /\ secret_key = SecretKeyOrEnv(args.secret_key, args.env)
    /\ backend \in {"wppconnect", "wwebjs"}
    /\ token0 = token
    /\ auto_register = TRUE
    /\ pc = "idle"
    /\ status_resp = EmptyDict
    /\ first_status = EmptyDict
    /\ status = ""
    /\ create_res = EmptyDict
    /\ start_res = EmptyDict
    /\ start_first = EmptyDict
    /\ qr_resp = EmptyDict
    /\ outcome = NoOutcome
    /\ requests = <<>>
    /\ calls = <<>>
    /\ ParseIdle
    /\ OpIdle

\* result = api.register_session(auto_register=...)
CallRegister ==
    /\ pc = "idle"
    /\ ostate = "idle"
    /\ pc' = "status"
    /\ auto_register' \in BOOLEAN
    /\ token0' = token
    /\ UNCHANGED <<backend, secret_key, token, status_resp, first_status, status,
                   create_res, start_res, start_first, qr_resp, outcome, requests,
                   calls, parseVars, opVars, appVars>>

\* register_session has returned or raised: its locals are gone
ReturnRegister ==
    /\ pc \in {"done", "raised"}
    /\ pc' = "idle"
    /\ auto_register' = TRUE
    /\ token0' = token
    /\ status_resp' = EmptyDict
    /\ first_status' = EmptyDict
    /\ status' = ""
    /\ create_res' = EmptyDict
    /\ start_res' = EmptyDict
    /\ start_first' = EmptyDict
    /\ qr_resp' = EmptyDict
    /\ outcome' = NoOutcome
    /\ requests' = <<>>
    /\ calls' = <<>>
    /\ UNCHANGED <<backend, secret_key, token, parseVars, opVars, appVars>>

\* The other operations called on the client, with what the backend answers
ClientOps(b) ==
    {[name |-> "send_rest_request", backend |-> b, endpoint |-> "ping",
      outcome |-> o] : o \in TransportOutcomes}
    \cup
    IF b = "wwebjs"
    THEN StatusCalls
         \cup {[name |-> n, args |-> a] : n \in UnsupportedOps, a \in AnyArguments}
         \cup {[name |-> "_format_chat_id", phone |-> ph, is_group |-> g] :
                ph \in PhoneIds, g \in BOOLEAN}
    ELSE {}

\* Another operation is called
CallOp ==
    /\ pc = "idle"
    /\ ostate = "idle"
    /\ op' \in ClientOps(backend)
    /\ ostate' = "ready"
    /\ UNCHANGED <<ret, sent, regVars, parseVars, appVars>>

\* It has returned or raised
ReturnOp ==
    /\ ostate \in {"returned", "raised"}
    /\ op' = [name |-> "none"]
    /\ ret' = EmptyDict
    /\ sent' = <<>>
    /\ ostate' = "idle"
    /\ UNCHANGED <<regVars, parseVars, appVars>>

NextClient ==
    \/ CallRegister
    \/ StatusPoll
    \/ CreateSessionNoSecret
    \/ CreateSession
    \/ StatusRetry
    \/ StartSession
    \/ StartRetry
    \/ Qrcode
    \/ HostDevice
    \/ ReturnRegister
    \/ CallOp
    \/ FormatChatId
    \/ StatusCall
    \/ Unsupported
    \/ SendRestRequest
    \/ ReturnOp

SpecClient == InitClient /\ [][NextClient]_vars

---------------------------------------------------------------------------
(* Properties of register_session *)

Count(seq, x) == Cardinality({i \in DOMAIN seq : seq[i] = x})

Called(name) == \E i \in DOMAIN calls : calls[i] = name

\* The index of the first x in seq, 0 when there is none
FirstIndex(seq, x) ==
    IF \E i \in DOMAIN seq : seq[i] = x
    THEN CHOOSE i \in DOMAIN seq : seq[i] = x /\ \A j \in 1..(i - 1) : seq[j] # x
    ELSE 0

\* The status, QR code and device info of the returned outcome
OutcomeStatus == Get(outcome, "status", "")
OutcomeQr == GetOrNone(outcome, "qrcode")
StartQr == GetOrNone(start_res, "qrcode")

\* A QR source was there: the start response carried a QR code, or the QR
\* endpoint answered with the image
QrSourceAvailable ==
    Truthy(StartQr) \/ Truthy(GetOrNone(qr_resp, "qrcode_base64"))

\* C1: with auto_register, a first status response whose raw status is "",
\* "QRCODE", "DISCONNECTED" or "CLOSED" (a missing status counts as blank) and
\* that carries no error never ends in ERROR, and ends in AWAITING_QR_SCAN
\* when a QR source was available (WPPConnect flavor).
C1_AutoRegisterAwaitsQr ==
    (/\ pc = "done"
     /\ backend = "wppconnect"
     /\ auto_register
     /\ Get(first_status, "status", "") \in {"", "QRCODE", "DISCONNECTED", "CLOSED"}
     /\ ~Has(first_status, "error"))
    => /\ OutcomeStatus # "ERROR"
       /\ (QrSourceAvailable => OutcomeStatus = "AWAITING_QR_SCAN")

\* The case of Scenario C: the first status answer carried an error containing
\* "Unauthorized" and create_session answered with a token
C2_Reauthenticated ==
    /\ Called("create_session")
    /\ ContainsUnauthorized(Get(first_status, "error", ""))
    /\ Truthy(GetOrNone(create_res, "token"))

\* C2 (as stated): in Scenario C the token of create_session is stored, status
\* is polled exactly twice, and a second poll reporting CONNECTED makes the
\* final outcome CONNECTED.
C2_OriginalConnectedAfterRetry ==
    C2_Reauthenticated =>
        /\ token = create_res.token
        /\ Count(calls, "status") <= 2
        /\ (pc # "status2" => Count(calls, "status") = 2)
        /\ (pc = "done" /\ status = "CONNECTED" => OutcomeStatus = "CONNECTED")

\* C2 (amended): in Scenario C the token of create_session is stored, status is
\* polled exactly twice, and when the second poll reports CONNECTED the outcome
\* is CONNECTED for WWebJS, and for WPPConnect it is CONNECTED if the start
\* call reports CONNECTED too and the start response itself otherwise.
C2_ConnectedAfterRetry ==
    C2_Reauthenticated =>
        /\ token = create_res.token
        /\ Count(calls, "status") <= 2
        /\ (pc # "status2" => Count(calls, "status") = 2)
        /\ (pc = "done" /\ status = "CONNECTED" =>
                IF backend = "wwebjs" \/ GetOrNone(start_res, "status") = "CONNECTED"
                THEN OutcomeStatus = "CONNECTED"
                ELSE outcome = VerbatimOutcome(start_res))

\* C2, the case reached: a new token stored, two polls, CONNECTED returned
C2_Witness ==
    /\ C2_Reauthenticated
    /\ pc = "done"
    /\ backend = "wppconnect"
    /\ create_res.token = "T"
    /\ token = "T"
    /\ token0 # "T"
    /\ Count(calls, "status") = 2
    /\ status = "CONNECTED"
    /\ OutcomeStatus = "CONNECTED"

\* C3: create_session is called at most once in a call; when it yields no
\* token and no success flag (also without a secret key, where no request is
\* issued) register_session returns ERROR at once: create_session is its last
\* call, no request follows, and the token is the one it started with.
C3_CreateFailureIsTerminal ==
    /\ Count(calls, "create_session") <= 1
    /\ (/\ Called("create_session")
        /\ ~Truthy(GetOrNone(create_res, "token"))
        /\ ~Truthy(GetOrNone(create_res, "ok"))
        => /\ pc = "done"
           /\ OutcomeStatus = "ERROR"
           /\ calls = <<"status", "create_session">>
           /\ Len(requests) = (IF secret_key = "" THEN 1 ELSE 2)
           /\ token = token0)

\* C3, the case reached: no secret key, ERROR after one request
C3_Witness ==
    /\ pc = "done"
    /\ secret_key = ""
    /\ create_res = NoSecretResult
    /\ OutcomeStatus = "ERROR"
    /\ calls = <<"status", "create_session">>
    /\ Len(requests) = 1

\* C4: when the first status poll maps to CONNECTED, create_session is not
\* called and the token on return is the token before the call.
C4_ConnectedNeverCreates ==
    (Len(calls) >= 1 /\ Upper(RawStatus(backend, first_status)) = "CONNECTED")
    => /\ ~Called("create_session")
       /\ (pc = "done" => token = token0)

\* C5: a returned outcome carries a non-empty QR code exactly when its status
\* is AWAITING_QR_SCAN, and device info exactly when its status is CONNECTED.
C5_QrIffAwaitingDeviceIffConnected ==
    pc = "done" =>
        /\ (Truthy(OutcomeQr) <=> OutcomeStatus = "AWAITING_QR_SCAN")
        /\ (Has(outcome, "device") <=> OutcomeStatus = "CONNECTED")

\* C6: on the auto-registration path start is called before any QR request;
\* a QR carried by the start response is the one returned and the QR endpoint
\* is then not requested.
C6_StartQrPreferred ==
    /\ (Called("qrcode")
        => /\ FirstIndex(calls, "start_session") # 0
           /\ FirstIndex(calls, "start_session") < FirstIndex(calls, "qrcode")
           /\ ~Truthy(StartQr))
    /\ (pc = "done" /\ OutcomeStatus = "AWAITING_QR_SCAN" /\ Truthy(StartQr)
        => OutcomeQr = StartQr)

---------------------------------------------------------------------------
(* Properties of parse_inbound_message *)

ParseDone == pstate \in {"returned", "raised"}

\* The result is {}
IsEmptyResult == ~result.raised /\ result.payload = EmptyDict

\* A field access of the common part fails: the payload is no dict, or its
\* author, from or to is present and not a str
FieldAccessFails(req) ==
    \/ req.t # "dict"
    \/ \E k \in {"author", "from", "to"} : Has(req.d, k) /\ req.d[k].t # "str"

\* The event of a payload that is a dict
EventOf(req) == Get(req.d, "event", Null)

\* C7: parse_inbound_message never raises; it returns {} for a payload that is
\* no dict, for an event other than onmessage, onpollresponse and onack, and
\* whenever a field access fails.
C7_NeverRaisesAbsentOnFailure ==
    /\ pstate # "raised"
    /\ (ParseDone =>
           /\ ~result.raised
           /\ (FieldAccessFails(request) => IsEmptyResult)
           /\ (request.t = "dict"
                 /\ EventOf(request) \notin
                        {Text("onmessage"), Text("onpollresponse"), Text("onack")}
               => IsEmptyResult))

\* C7, the case reached: a recognized event whose author is a number
C7_Witness ==
    /\ pstate = "returned"
    /\ request.t = "dict"
    /\ EventOf(request) = Text("onmessage")
    /\ Has(request.d, "author")
    /\ request.d.author = Int
    /\ IsEmptyResult

\* C8: in every result that is not {}, isGroup is true when author and from
\* (with "@c.us" removed) are both non-empty and differ, whatever isGroupMsg
\* says, and is the payload's isGroupMsg (False when absent) otherwise.
C8_GroupInference ==
    (ParseDone /\ ~IsEmptyResult /\ ~result.raised) =>
        LET author == StripCUs(Get(request.d, "author", Str(<<>>)).s)
            sender == StripCUs(Get(request.d, "from", Str(<<>>)).s)
        IN  IF author # <<>> /\ sender # <<>> /\ author # sender
            THEN result.payload.isGroup = Bool(TRUE)
            ELSE result.payload.isGroup = Get(request.d, "isGroupMsg", Bool(FALSE))

\* C8, the case reached: a group message whose own flag says it is none
C8_Witness ==
    /\ pstate = "returned"
    /\ ~IsEmptyResult
    /\ Get(request.d, "author", Null) = Individual("111")
    /\ Get(request.d, "from", Null) = Group("g1")
    /\ Get(request.d, "isGroupMsg", Null) = Bool(FALSE)
    /\ result.payload.isGroup = Bool(TRUE)

\* A poll response with nothing malformed in it
WellFormedPoll(req) ==
    /\ req.t = "dict"
    /\ EventOf(req) = Text("onpollresponse")
    /\ Get(req.d, "msgId", Null).t = "dict"
    /\ Get(req.d.msgId.d, "_serialized", Null).t = "str"
    /\ Get(req.d, "chatId", Null).t = "str"
    /\ ~FieldAccessFails(req)

\* C9: every onpollresponse payload is normalized as a poll (kind poll, poll
\* id from msgId._serialized, selected options copied, sender from chatId with
\* the suffix removed), whatever type or dataType it also carries.
C9_PollResponseIsPoll ==
    (ParseDone /\ WellFormedPoll(request)) =>
        /\ ~IsEmptyResult
        /\ result.payload.message_type = Text("poll")
        /\ Get(result.payload, "poll_id", Null) = request.d.msgId.d["_serialized"]
        /\ Get(result.payload, "selectedOptions", Null)
                = Get(request.d, "selectedOptions", Str(<<>>))
        /\ result.payload.sender = Str(StripCUs(request.d.chatId.s))

\* C10: for a chat message the body is the payload's body; content is used
\* only when body is absent.
C10_ChatBodyPrefersBody ==
    (/\ ParseDone
     /\ ~IsEmptyResult
     /\ request.t = "dict"
     /\ Get(request.d, "type", Null) = Text("chat")) =>
        Get(result.payload, "body", Null) =
            (IF Has(request.d, "body")
             THEN request.d.body
             ELSE Get(request.d, "content", Str(<<>>)))

\* The value a field unwraps to: its nested key when it is a nested
\* structure, the field itself otherwise
UnwrappedField(f, k, nested, default) ==
    LET v == Get(f, k, default)
    IN  IF v.t = "dict" THEN Get(v.d, nested, default) ELSE v

\* C11: in every result that is not {}, the message id is id.id when id is a
\* nested structure and id otherwise, and fromMe is fromMe.fromMe when fromMe
\* is a nested structure and fromMe otherwise, whether or not id is nested.
C11_UnwrappingIsPerField ==
    (ParseDone /\ ~IsEmptyResult /\ request.t = "dict") =>
        /\ result.payload.message_id = UnwrappedField(request.d, "id", "id", Str(<<>>))
        /\ result.payload.fromMe
                = UnwrappedField(request.d, "fromMe", "fromMe", Bool(FALSE))

\* A str with the "@c.us" domain suffix removed: only a trailing "@c.us" goes
StripSuffix(str) ==
    IF str # <<>> /\ str[Len(str)] = "@c.us"
    THEN SubSeq(str, 1, Len(str) - 1)
    ELSE str

\* The field of a payload with its suffix removed, "" when it is absent
Stripped(f, k) == Str(StripSuffix(Get(f, k, Str(<<>>)).s))

\* C12: in every result that is not {}, author and receiver are the payload's
\* author and to with the "@c.us" suffix removed, and sender is from (chatId
\* for a result of kind poll) with the suffix removed; any other id is passed
\* through unchanged.
C12_SuffixStripped ==
    (ParseDone /\ ~IsEmptyResult /\ request.t = "dict") =>
        /\ result.payload.author = Stripped(request.d, "author")
        /\ result.payload.receiver = Stripped(request.d, "to")
        /\ result.payload.sender =
                (IF result.payload.message_type = Text("poll")
                 THEN Stripped(request.d, "chatId")
                 ELSE Stripped(request.d, "from"))

\* The calls made so far: the earlier ones, and the current one once it is over
CallsMade ==
    IF ParseDone
    THEN Append(earlier, [request |-> request, result |-> result])
    ELSE earlier

\* Two calls on the same payload gave the same result, whatever came between
SameResultForSamePayload ==
    \A i, j \in DOMAIN CallsMade :
        CallsMade[i].request = CallsMade[j].request
            => CallsMade[i].result = CallsMade[j].result

\* A call leaves its payload and the record of earlier calls as they were
CallLeavesPayloadAlone ==
    (pstate = "ready" /\ pstate' # "ready") => (request' = request /\ earlier' = earlier)

---------------------------------------------------------------------------
(* Properties of _format_chat_id *)

FormatDone == ostate = "returned" /\ op.name = "_format_chat_id"

\* The id is a bare number followed by the suffix sfx
IsSuffixed(phone, sfx) ==
    /\ Len(phone) >= 2
    /\ phone[Len(phone)] = sfx
    /\ ~ContainsAt(SubSeq(phone, 1, Len(phone) - 1))

Bare(phone) == SubSeq(phone, 1, Len(phone) - 1)

\* What the claim says of every id besides the round trip: an id containing
\* "@" is unchanged, a bare id gets the suffix of the flag, formatting the
\* result again changes nothing
FormatRules ==
    /\ (ContainsAt(op.phone) => ret = op.phone)
    /\ (~ContainsAt(op.phone) => ret = Append(op.phone, ChatSuffix(op.is_group)))
    /\ format_chat_id(ret, op.is_group) = ret

\* C14 (as stated): a number with an existing "@c.us" or "@g.us" suffix gives
\* the chat id the bare number gives for the same is_group flag; an id that
\* contains "@" is unchanged, a bare id gets "@g.us" when is_group and "@c.us"
\* otherwise, and formatting a formatted id again changes nothing.
C14_OriginalRoundTrip ==
    FormatDone =>
        /\ \A sfx \in {"@c.us", "@g.us"} :
              IsSuffixed(op.phone, sfx)
                  => ret = format_chat_id(Bare(op.phone), op.is_group)
        /\ FormatRules

\* C14 (amended): a number with the suffix its is_group flag selects gives the
\* chat id the bare number gives; an id that contains "@" is unchanged (so a
\* number with the other suffix keeps it), a bare id gets "@g.us" when
\* is_group and "@c.us" otherwise, and formatting again changes nothing.
C14_RoundTripForMatchingSuffix ==
    FormatDone =>
        /\ (IsSuffixed(op.phone, ChatSuffix(op.is_group))
              => ret = format_chat_id(Bare(op.phone), op.is_group))
        /\ FormatRules

\* C14, the case reached: a group id formatted as a group id is unchanged and
\* is what the bare number gives
C14_Witness ==
    /\ FormatDone
    /\ op.phone = <<"111", "@g.us">>
    /\ op.is_group
    /\ ret = <<"111", "@g.us">>
    /\ ret = format_chat_id(<<"111">>, TRUE)

---------------------------------------------------------------------------
(* Properties of status() of the WWebJS flavor *)

StatusDone == ostate = "returned" /\ op.name = "status"

\* The message and the state of the backend's answer, NONE when it has none
AnswerMessage == GetOrNone(op.outcome.body, "message")
AnswerState == GetOrNone(op.outcome.body, "state")

\* The canonical state of a status string: a blank status is DISCONNECTED
CanonicalState(st) ==
    CASE st = "CONNECTED" -> "CONNECTED"
      [] st = "QRCODE" -> "AWAITING_QR"
      [] st \in {"DISCONNECTED", "CLOSED", ""} -> "DISCONNECTED"
      [] OTHER -> "UNKNOWN"

\* C15: for the messages session_not_found, session closed and browser tab
\* closed the status that status() produces is canonically DISCONNECTED,
\* never ERROR and never CONNECTED, whatever the state field holds.
C15_ClosedSessionIsDisconnected ==
    (StatusDone /\ AnswerMessage \in {"session_not_found", "session closed",
                                      "browser tab closed"})
    => /\ Has(ret, "status")
       /\ CanonicalState(ret.status) = "DISCONNECTED"
       /\ ret.status \notin {"ERROR", "CONNECTED"}

\* C15, the case reached: a closed session whose answer still says CONNECTED
C15_Witness ==
    /\ StatusDone
    /\ AnswerMessage = "session closed"
    /\ AnswerState = "CONNECTED"
    /\ ret.state = "CONNECTED"
    /\ ret.status = ""

\* The messages status() is told how to map
NamedMessages ==
    {"session_not_found", "session closed", "browser tab closed",
     "session_not_connected", "session_connected"}

\* C16: session_connected gives CONNECTED; session_not_connected gives the
\* state of the answer when it is non-empty and DISCONNECTED otherwise; every
\* other message gives no known status (blank or unknown), also when the
\* answer carries a state.
C16_MessageTable ==
    (StatusDone /\ op.outcome.kind = "json") =>
        /\ (AnswerMessage = "session_connected" => ret.status = "CONNECTED")
        /\ (AnswerMessage = "session_not_connected" =>
                ret.status = (IF Truthy(AnswerState) THEN AnswerState ELSE "DISCONNECTED"))
        /\ (AnswerMessage \notin NamedMessages =>
                \/ ret.status = ""
                \/ CanonicalState(ret.status) = "UNKNOWN")

---------------------------------------------------------------------------
(* Properties of the unsupported operations *)

\* A result of the failed-call shape {ok: false, error: <text>}
IsFailedCall(d) ==
    /\ DOMAIN d = {"ok", "error"}
    /\ d.ok = "false"
    /\ Truthy(d.error)

\* C17: every operation the WWebJS flavor does not support returns
\* {ok: false, error: <text>} for every argument, never raises and issues no
\* backend request.
C17_UnsupportedIsFailedCall ==
    op.name \in UnsupportedOps =>
        /\ ostate # "raised"
        /\ sent = <<>>
        /\ (ostate = "returned" => IsFailedCall(ret))

\* C17, the case reached: send_order_message called with None
C17_Witness ==
    /\ ostate = "returned"
    /\ op = [name |-> "send_order_message", args |-> Null]
    /\ ret = Failed("send_order_message not yet implemented for WWebJS")
    /\ sent = <<>>

---------------------------------------------------------------------------
(* Properties of the adapter boundary *)

\* A result of the uniform shape: an ok or a status field
IsUniformResult(d) == Has(d, "ok") \/ Has(d, "status")

\* The last status answer held a JSON null where the status string belongs
NullStatusAnswer ==
    GetOrNone(status_resp, "status") = NULL \/ GetOrNone(status_resp, "state") = NULL

\* C18: whatever the transport comes back with (timeout, network error,
\* non-2xx, a body that is no JSON, a JSON error body), register_session and
\* the qrcode call inside it let no exception out and return a result that
\* has an ok or a status field.
C18_NoExceptionCrossesBoundary ==
    /\ (pc = "raised" => NullStatusAnswer)
    /\ (pc = "done" => IsUniformResult(outcome))

---------------------------------------------------------------------------
(* Properties of send_rest_request *)

RequestDone == ostate = "returned" /\ op.name = "send_rest_request"

\* What send_rest_request of the WPPConnect flavor gives for a failure
FailureResult(kind) == send_rest_request_wpp(Outcome(kind, EmptyDict, ""))

\* C19: send_rest_request never raises and gives a 2xx JSON body as it is, a
\* 2xx body that is no JSON as {ok: true, raw}, a 2xx without body as
\* {ok: true, no_content: true} and a failure as {ok: false, error}; the
\* result of a timeout differs from the result of every other failure.
C19_FourResults ==
    /\ ostate # "raised"
    /\ (RequestDone /\ op.backend = "wppconnect") =>
        LET o == op.outcome
        IN  /\ (o.kind = "json" => ret = o.body)
            /\ (o.kind = "raw" => ret = [ok |-> "true", raw |-> o.content])
            /\ (o.kind = "empty" => ret = [ok |-> "true", no_content |-> "true"])
            /\ (o.kind \in TimeoutKinds \cup OtherFailureKinds => IsFailedCall(ret))
            /\ (o.kind \in TimeoutKinds =>
                    \A k \in OtherFailureKinds : ret # FailureResult(k))
            /\ (o.kind \in OtherFailureKinds =>
                    \A k \in TimeoutKinds : ret # FailureResult(k))

\* C19, the case reached: a read timeout, told apart from a 504
C19_Witness ==
    /\ RequestDone
    /\ op.backend = "wppconnect"
    /\ op.outcome.kind = "timeout"
    /\ ret = Failed("Timeout after 10.0 seconds")
    /\ ret # FailureResult("http504")

\* C20: when the decoded response carries a success field, the result of the
\* WWebJS send_rest_request has ok equal to it and every other field as it
\* was; a response without a success field is returned unchanged.
C20_SuccessFoldedIntoOk ==
    (RequestDone /\ op.backend = "wwebjs" /\ op.outcome.kind = "json") =>
        LET body == op.outcome.body
        IN  IF Has(body, "success")
            THEN /\ DOMAIN ret = DOMAIN body \cup {"ok"}
                 /\ ret.ok = body.success
                 /\ \A k \in DOMAIN body \ {"ok"} : ret[k] = body[k]
            ELSE ret = body

\* C20, the case reached: a 2xx answer with success false, and one whose own
\* ok said true
C20_Witness ==
    /\ RequestDone
    /\ op.backend = "wwebjs"
    /\ op.outcome.kind = "json"
    /\ op.outcome.body = [success |-> "false", ok |-> "true"]
    /\ ret = [success |-> "false", ok |-> "false"]

---------------------------------------------------------------------------
(* The token register_session stores, and the requests issued after it *)

\* The number of requests issued when self.token was assigned: the write
\* follows the generate-token request at once
TokenWriteIndex == FirstIndex(requests, Req("create", backend, token0, secret_key))

\* register_session replaced the stored token with a newly created one
TokenReplaced == token # token0 /\ TokenWriteIndex > 0

\* C23: once register_session has replaced the stored token, every backend
\* request issued afterwards carries the new token as its credential and none
\* carries the old one, for both backend flavors.
C23_TokenReadAfterWrite ==
    TokenReplaced =>
        \A i \in (TokenWriteIndex + 1)..Len(requests) :
            /\ requests[i].auth = token
            /\ requests[i].auth # token0

\* The same for the WPPConnect flavor alone, whose requests carry the token
C23_BearerReadAfterWrite ==
    (TokenReplaced /\ backend = "wppconnect") =>
        \A i \in (TokenWriteIndex + 1)..Len(requests) :
            /\ requests[i].auth = token
            /\ requests[i].auth # token0

---------------------------------------------------------------------------
(* The CONNECTED path of register_session *)

\* start_session was called, and before get_host_device
StartCameFirst ==
    /\ Called("start_session")
    /\ FirstIndex(calls, "start_session") < FirstIndex(calls, "get_host_device")

\* C24: device info is fetched, and CONNECTED returned, only after a start
\* call that itself reported CONNECTED; device info is never fetched before
\* the start call, for both backend flavors.
C24_StartBeforeDeviceInfo ==
    /\ Called("get_host_device") =>
        StartCameFirst /\ GetOrNone(start_res, "status") = "CONNECTED"
    /\ (pc = "done" /\ OutcomeStatus = "CONNECTED") => Called("get_host_device")

\* The same for the WPPConnect flavor alone
C24_StartBeforeDeviceInfoWpp ==
    backend = "wppconnect" => C24_StartBeforeDeviceInfo

---------------------------------------------------------------------------
(* When register_session attempts session creation *)

\* The status call signalled an authorization failure
SignalsAuthFailure(resp) == ContainsUnauthorized(Get(resp, "error", ""))

\* C25: create_session is attempted only when the first status answer
\* signalled an authorization failure - not for a timeout or another
\* transport failure, not for an answer with a status value, blank included -
\* and it is attempted at most once within the call.
C25_CreateOnlyOnAuthFailure ==
    /\ Called("create_session") => SignalsAuthFailure(first_status)
    /\ Count(calls, "create_session") <= 1

\* The part of C25 that holds: create_session is never attempted twice
C25_CreateAtMostOnce == Count(calls, "create_session") <= 1

---------------------------------------------------------------------------
(* The requests of one register_session call *)

\* The requests that go through send_rest_request, which passes
\* timeout=self.timeout: each of them is answered or fails within the timeout.
\* qrcode() of the WPPConnect flavor calls requests.get without a timeout
\* (wppconnect_api.py lines 432-435) and may wait for its answer for ever.
TimedRequests ==
    \/ StatusPoll
    \/ CreateSessionNoSecret
    \/ CreateSession
    \/ StatusRetry
    \/ StartSession
    \/ StartRetry
    \/ (backend = "wwebjs" /\ Qrcode)
    \/ HostDevice

\* register_session with every request that has a timeout coming back
SpecTimed == Init /\ [][Next]_vars /\ WF_vars(TimedRequests)

\* register_session with every request coming back
SpecAnswered == Init /\ [][Next]_vars /\ WF_vars(Next)

RequestCount(ep) == Cardinality({i \in DOMAIN requests : requests[i].ep = ep})

RegisterFinished == pc \in {"done", "raised"}

\* The number of start requests a finished start_session call has issued
StartRequestsExpected ==
    IF backend = "wppconnect" /\ ~Truthy(GetOrNone(start_first, "status"))
    THEN 2
    ELSE 1

RequestBounds ==
    /\ RequestCount("status") <= 2
    /\ Count(calls, "create_session") <= 1
    /\ RequestCount("create") <= 1
    /\ Count(calls, "start_session") <= 1
    /\ RequestCount("start") <= 2
    /\ (Called("start_session") /\ pc # "start_retry") =>
            RequestCount("start") = StartRequestsExpected
    /\ (pc = "start_retry") => RequestCount("start") = 1
    /\ RequestCount("qrcode") <= 1
    /\ RequestCount("host-device") <= 1
    /\ RequestCount("qrcode") + RequestCount("host-device") <= 1

\* C29: register_session ends on every path, after at most two status polls,
\* one create_session, one start_session call (two start requests exactly
\* when the first WPPConnect start answer carried no status), one QR request
\* and one device-info request.
C29_BoundedRequests == []RequestBounds /\ <>RegisterFinished

\* The request bounds alone
C29_RequestBoundsOnly == []RequestBounds

---------------------------------------------------------------------------
(* The credentials after construction *)

\* url is given without its trailing separators
StrippedOf(url, given_url) ==
    /\ url = <<>> \/ url[Len(url)] # "/"
    /\ \E n \in 0..Len(given_url) : given_url = url \o [i \in 1..n |-> "/"]

\* api_url, session, secret_key and timeout are what the constructor set
CredentialsAsConstructed ==
    /\ StrippedOf(api_url, given.api_url)
    /\ session = given.session
    /\ timeout = given.timeout
    /\ secret_key = IF given.secret_key \in {NONE, ""}
                    THEN (IF given.env = NONE THEN "" ELSE given.env)
                    ELSE given.secret_key

\* A step that changes the token is the step of register_session that follows
\* create_session, and the new token is the non-empty one create_session
\* returned
TokenWrittenFromCreate ==
    token' # token =>
        /\ pc = "create"
        /\ pc' = "status2"
        /\ Truthy(token')
        /\ token' = GetOrNone(create_res', "token")

\* A register_session call that returned ERROR after create_session left the
\* token as it was
ErrorLeavesToken ==
    (pc = "done" /\ outcome = ErrorOutcome(create_res)) => token = token0

---------------------------------------------------------------------------
(* The normalizers of the two flavors against each other *)

BothDone == pstate # "ready" /\ ostate # "ready"

\* C30: for every payload the parse_inbound_message of wppconnect_api.py and
\* the one of wwebjs_wppconnect_api.py end the same way and return the same
\* dict: the same fields with the same values, and {} in the same cases.
C30_NormalizersAgree ==
    (BothDone /\ op.name = "parse_inbound_message") =>
        /\ pstate = ostate
        /\ result = ret

\* C30, the case reached: a chat message whose group flag was inferred and
\* whose sender lost its suffix, the same from both flavors
C30_Witness ==
    /\ BothDone
    /\ op.name = "parse_inbound_message"
    /\ result = ret
    /\ pstate = "returned"
    /\ "body" \in DOMAIN ret.payload
    /\ ret.payload.isGroup = Bool(TRUE)
    /\ Get(request.d, "isGroupMsg", Bool(FALSE)) = Bool(FALSE)
    /\ ret.payload.sender # request.d.from

\* C30, the other case reached: both flavors give {} for a payload whose
\* field access fails
C30_AbsentAgreed ==
    /\ BothDone
    /\ op.name = "parse_inbound_message"
    /\ ParseBody_wwebjs(request).raised
    /\ result = ParseEmpty
    /\ ret = ParseEmpty

---------------------------------------------------------------------------
(* The device identity connect_session reports *)

DeviceDone == op.name = "connect_session" /\ ostate # "ready"

\* A value that is there and not empty
NonEmptyText(v) == v.t = "str" /\ v.s # <<>>

\* The five places, in the order of the spec; Absent where a place is missing
IdentityCandidates(device) ==
    LET wid == Get(device, "wid", Absent)
        me == Get(device, "me", Absent)
        response == Get(device, "response", Absent)
        phoneNumber == IF response.t = "dict"
                       THEN Get(response.d, "phoneNumber", Absent)
                       ELSE Absent
    IN  <<IF wid.t = "dict" THEN Get(wid.d, "user", Absent) ELSE Absent,
          IF wid.t = "str" THEN wid ELSE Absent,
          Get(device, "phone", Absent),
          IF me.t = "dict" THEN Get(me.d, "user", Absent) ELSE Absent,
          IF phoneNumber.t = "str" THEN Str(StripSuffix(phoneNumber.s)) ELSE Absent>>

\* The first non-empty candidate, Unknown when there is none
FirstNonEmpty(candidates) ==
    IF \E i \in DOMAIN candidates : NonEmptyText(candidates[i])
    THEN candidates[CHOOSE i \in DOMAIN candidates :
                        /\ NonEmptyText(candidates[i])
                        /\ \A j \in 1..(i - 1) : ~NonEmptyText(candidates[j])]
    ELSE Unknown

\* C22: the identity reported for a CONNECTED outcome is the first non-empty
\* one of wid.user, a plain-string wid, phone, me.user and response.phoneNumber
\* without its "@c.us" suffix, and unknown only when all five are absent or
\* empty.
C22_FirstNonEmptyIdentity ==
    (DeviceDone /\ op.device.t = "dict") =>
        /\ ostate = "returned"
        /\ ret = FirstNonEmpty(IdentityCandidates(op.device.d))

\* The part of C22 that holds: when wid.user is there and not empty, it is
\* the identity reported
C22_WidUserFirst ==
    (/\ DeviceDone
     /\ op.device.t = "dict"
     /\ NonEmptyText(IdentityCandidates(op.device.d)[1]))
    => ostate = "returned" /\ ret = IdentityCandidates(op.device.d)[1]

---------------------------------------------------------------------------
(* The wait-for-connection loops *)

\* The i-th poll observed CONNECTED, as its loop reads the answer
ObservedConnected(i) ==
    IF waiter = "get_token"
    THEN polls[i].status # NULL /\ Upper(polls[i].status) = "CONNECTED"
    ELSE polls[i].status = "CONNECTED"

InterPollDelay == IF waiter = "get_token" THEN TokenPollDelay ELSE ChatPollDelay

\* The timeout, or the poll budget, is used up
BudgetUsedUp ==
    IF waiter = "get_token"
    THEN clock - start_time >= WaitTimeout
    ELSE Len(polls) = PollBudget

\* No poll follows one that observed CONNECTED, and consecutive polls are at
\* least the inter-poll delay apart
PollDiscipline ==
    \A i \in 1..(Len(polls) - 1) :
        /\ ~ObservedConnected(i)
        /\ polls[i + 1].at - polls[i].at >= InterPollDelay

\* Success is returned for the poll that observed CONNECTED, failure only
\* with the budget used up and CONNECTED never observed
WaitResults ==
    /\ wresult = "true" => polls # <<>> /\ ObservedConnected(Len(polls))
    /\ (polls # <<>> /\ ObservedConnected(Len(polls))) =>
            wpc \in {"device", "done"} /\ wresult # "false"
    /\ wresult = "false" =>
            BudgetUsedUp /\ \A i \in DOMAIN polls : ~ObservedConnected(i)

\* C21: the wait-for-connection loop always ends: with success at the first
\* status poll that observes CONNECTED, after which no status poll is issued,
\* with failure once the timeout (the poll budget) is used up without
\* CONNECTED; consecutive polls are separated by the inter-poll delay.
C21_WaitLoopTerminates ==
    /\ [](wpc # "raised" /\ PollDiscipline /\ WaitResults)
    /\ <>(wpc = "done")

\* The part of C21 that holds for both loops
C21_PollsAndResults == [](PollDiscipline /\ WaitResults)

\* The QR wait of connect_session ends
C21_ChatWaitEnds == (waiter = "chat_cli") => <>(wpc = "done")

\* wait_for_connection ends, by returning or by raising
C21_TokenWaitEnds == (waiter = "get_token") => <>(wpc \in {"done", "raised"})

---------------------------------------------------------------------------
(* The webhook queue of chat_cli_webhook.py *)

Range(s) == {s[i] : i \in DOMAIN s}

NoDuplicates(s) == \A i, j \in DOMAIN s : s[i] = s[j] => i = j

IsPrefix(s, t) == Len(s) <= Len(t) /\ \A i \in DOMAIN s : s[i] = t[i]

\* The payload's from or to equals the active chat id
MatchesChat(body) ==
    /\ body.t = "dict"
    /\ \/ Get(body.d, "from", Str(<<>>)) = Str(formatted_target)
       \/ Get(body.d, "to", Str(<<>>)) = Str(formatted_target)

\* Every payload that was queued when the call started has been removed, and
\* handed to display_message exactly when it belongs to the active chat
SnapshotDrained ==
    \A i \in DOMAIN snapshot :
        /\ snapshot[i].id \in Range(removed)
        /\ snapshot[i].id \in Range(displayed) <=> MatchesChat(snapshot[i].body)

\* process_incoming_messages is not executing: it returned or it raised
CallEnded == qpc \in {"returned", "raised"}

\* C27 (part): each acknowledged payload is removed at most once, payloads
\* are removed in arrival order, and no payload is displayed twice
C27_QueueOrder ==
    /\ NoDuplicates(removed)
    /\ IsPrefix(removed, acked)
    /\ NoDuplicates(displayed)
    /\ Range(displayed) \subseteq Range(removed)

\* C27: under every interleaving of webhook deliveries with
\* process_incoming_messages, each acknowledged payload is removed at most
\* once and in arrival order, none is displayed twice, and a payload queued
\* when process_incoming_messages starts is removed by that call, displayed
\* if its from or to equals the active chat id and discarded otherwise
C27_WebhookQueue == C27_QueueOrder /\ (CallEnded => SnapshotDrained)

\* C27 (part): a call that returns has removed every payload that was queued
\* when it started, and displayed exactly those of the active chat
C27_ReturnedCallDrains == qpc = "returned" => SnapshotDrained

\* A call has ended on an exception with a payload of its snapshot left queued
C27_RaisedWithQueued ==
    /\ qpc = "raised"
    /\ \E i \in DOMAIN snapshot : snapshot[i].id \notin Range(removed)

\* A call returned after displaying one payload and discarding another while
\* a delivery arrived during the call
C27_ReturnedMixed ==
    /\ qpc = "returned"
    /\ Len(snapshot) >= 1
    /\ Len(removed) > Len(snapshot)
    /\ displayed # <<>>
    /\ Len(displayed) < Len(removed)

---------------------------------------------------------------------------
(* The WebhookServer lifecycle *)

\* What start and stop can change
serverCore ==
    <<running, server, server_thread, created, active_servers, active_threads,
      message_callback, current_cb>>

\* The step is a call of start (stop) on the server
StartCalled == last_call' # last_call /\ last_call'.op = "start"

StopCalled == last_call' # last_call /\ last_call'.op = "stop"

\* At most one HTTP server and one serving thread are active, and running is
\* true exactly while the server of the last successful start is active
OneActiveServer ==
    /\ Cardinality(active_servers) <= 1
    /\ Cardinality(active_threads) <= 1
    /\ running <=> active_servers # {}
    /\ running => active_servers = {server} /\ active_threads = {server_thread}

\* start while running and stop while not running leave everything as it was
NoOpCalls ==
    [][/\ (running /\ StartCalled) => UNCHANGED serverCore
       /\ (~running /\ StopCalled) => UNCHANGED serverCore]_vars

\* running becomes true only by a start that succeeded and false only by stop
RunningBetweenStartAndStop ==
    [][/\ (~running /\ running') => (StartCalled /\ last_call'.effect = "started")
       /\ (running /\ ~running') => StopCalled
       /\ (StartCalled /\ last_call'.effect = "started") => running'
       /\ (running /\ StopCalled) => ~running']_vars

\* The last request was a message for the callback, and it was handed to the
\* callback of the most recent start that took effect
DeliveredToCurrent ==
    (last_call.op = "deliver" /\ last_call.eligible) => last_call.handed_to = current_cb

\* C28: after any sequence of start and stop calls at most one HTTP server and
\* one serving thread are active, start while running and stop while not
\* running are no-ops, running is true exactly between a successful start and
\* the next stop, and every message delivered while running is handed to the
\* callback given to the most recent start
C28_ServerLifecycle ==
    /\ []OneActiveServer
    /\ NoOpCalls
    /\ RunningBetweenStartAndStop
    /\ []DeliveredToCurrent

\* C28 (part): the lifecycle without the hand-over to the callback
C28_StartStopOnly ==
    /\ []OneActiveServer
    /\ NoOpCalls
    /\ RunningBetweenStartAndStop

\* C28 (part): a message delivered while a bound method is the callback is
\* handed to the callback of the most recent start
C28_MethodCallbackReceives ==
    (last_call.op = "deliver" /\ last_call.eligible /\ current_cb.kind = "method")
        => last_call.handed_to = current_cb

\* A message for the callback arrived while running and was not handed over
C28_NotHanded ==
    /\ running
    /\ last_call.op = "deliver"
    /\ last_call.eligible
    /\ last_call.handed_to = NoCallback

=============================================================================
